---------------------------- MODULE Spec2Model ----------------------------
(***************************************************************************)
(* A model of the crash pipeline: the transformer worker (merge of the raw *)
(* datasets into one artifact per corr_id), the cleaner worker (Normalizer *)
(* plus DuckDB upsert and run ledger) and the queue-consumer lifecycle     *)
(* that ties them together.                                                *)
(*                                                                         *)
(* Several specifications share the module's variables:                    *)
(*   SpecClean   apply_cleaning applied to bounded input tables            *)
(*   SpecStore   sequences of DuckDBWriter.upsert / record_run calls       *)
(*   Spec        the two workers consuming their queues                    *)
(*   SpecStart   the workers' start-up against a broker that comes and goes*)
(***************************************************************************)
EXTENDS Integers, Sequences, FiniteSets, Bags, TLC

VARIABLES
    \* ---- SpecClean: one call of apply_cleaning
    cleanIn,      \* the DataFrame handed to apply_cleaning
    cleanOut,     \* its result: [ok, df]
    cleanPc,      \* "build" while rows are added, "done" after the call
    \* ---- the analytical store (DuckDB file)
    skipInner,    \* the DuckDB build: whether ON CONFLICT DO NOTHING skips a
                  \* second row of one pk in a batch (TRUE) or raises (FALSE)
    gold,         \* the table "crashes"
    ledger,       \* the rows of the table _clean_runs, in insertion order
    clock,        \* now(): the number of ledger writes so far
    storeLog,     \* SpecStore: the calls made so far, with what they returned
    \* ---- Spec: the workers on their queues
    queue,        \* per queue, the bag of messages ready for delivery
    chan,         \* per worker, its channel: pc, prefetch limit, the deliveries
                  \* not yet acknowledged, oldest first
    objects,      \* the object store of the merged artifacts
    raw,          \* the raw bucket: the name of its content
    env,          \* the workers' environment variables
    strictUnique, \* the polars build: whether unique(subset) on an empty
                  \* frame raises for a missing column
    last,         \* the most recent handling of a delivery and its outcome
    repeat,       \* per stage, the job its last fault-free run processed, the
                  \* input it read, and whether that run repeated the one before
    published,    \* the number of messages the producers have published
    \* ---- SpecStart: the workers' start-up
    broker,       \* the broker: "down", "port" (its TCP port accepts
                  \* connections, AMQP does not answer yet) or "up"
    flips,        \* the number of times the broker has changed so far
    attempt,      \* per worker, the attempts made in the loop it is in
    \* ---- SpecMerge: one call of merge_crash_vehicles_people
    mergeIn,      \* the datasets handed to it: [crashes, vehicles, people]
    mergeOut,     \* its result: [ok, df]
    mergePc,      \* "ready" before the call, "done" after it
    \* ---- SpecLoad: one call of load_dataset
    loadIn,       \* the objects of the raw bucket, in the order of list_objects
    loadOut,      \* its result: [ok, err, df]
    loadPc        \* "ready" before the call, "done" after it

(***************************************************************************)
(* Values.  A cell is null (None / NaN / <NA>), a string (a sequence of    *)
(* one-character strings) or a number.                                     *)
(***************************************************************************)
Null == [t |-> "null", s |-> <<>>, n |-> 0]
S(str) == [t |-> "str", s |-> str, n |-> 0]
N(num) == [t |-> "num", s |-> <<>>, n |-> num]
IsNull(v) == v.t = "null"

\* str.strip(): leading and trailing whitespace removed.
RECURSIVE LStrip(_)
LStrip(s) == IF s # <<>> /\ Head(s) = " " THEN LStrip(Tail(s)) ELSE s
RECURSIVE RStrip(_)
RStrip(s) ==
    IF s # <<>> /\ s[Len(s)] = " " THEN RStrip(SubSeq(s, 1, Len(s) - 1)) ELSE s
Strip(s) == RStrip(LStrip(s))

\* str.lower(), on the letters the model's strings are made of.
LowerChar(c) ==
    CASE c = "Y" -> "y" [] c = "N" -> "n" [] c = "X" -> "x" [] c = "E" -> "e"
      [] c = "S" -> "s" [] c = "O" -> "o" [] c = "T" -> "t" [] c = "F" -> "f"
      [] OTHER -> c
Lower(s) == [i \in 1..Len(s) |-> LowerChar(s[i])]

DigitChars == <<"0", "1", "2", "3", "4", "5", "6", "7", "8", "9">>
RECURSIVE IntToStr(_)
IntToStr(k) ==
    IF k < 10 THEN <<DigitChars[k + 1]>>
    ELSE IntToStr(k \div 10) \o <<DigitChars[(k % 10) + 1]>>
DigitVal(c) == CHOOSE d \in 0..9 : DigitChars[d + 1] = c
IsDigits(s) == s # <<>> /\ \A i \in 1..Len(s) : \E d \in 1..10 : DigitChars[d] = s[i]
RECURSIVE StrToInt(_)
StrToInt(s) ==
    IF Len(s) = 1 THEN DigitVal(s[1])
    ELSE 10 * StrToInt(SubSeq(s, 1, Len(s) - 1)) + DigitVal(s[Len(s)])

\* Series.astype("string"): nulls stay <NA>, everything else is its text.
AsString(v) == IF v.t = "num" THEN S(IntToStr(v.n)) ELSE v
\* .str.strip() and .str.lower() skip <NA>.
StrStrip(v) == IF v.t = "str" THEN S(Strip(v.s)) ELSE v
StrLower(v) == IF v.t = "str" THEN S(Lower(v.s)) ELSE v

(***************************************************************************)
(* DataFrames: the column names in order, a dtype per column and the rows  *)
(* in order, each row a function from the column names to cells.           *)
(***************************************************************************)
ColSet(df) == {df.cols[i] : i \in 1..Len(df.cols)}
HasCol(df, c) == c \in ColSet(df)
Height(df) == Len(df.rows)
Column(df, c) == [i \in 1..Len(df.rows) |-> df.rows[i][c]]
\* pandas' DataFrame.empty: no rows or no columns.
IsEmptyDf(df) == Len(df.rows) = 0 \/ Len(df.cols) = 0
EmptyDf == [cols |-> <<>>, dt |-> <<>>, rows |-> <<>>]

\* A function, a list of rows and a DataFrame as stored values: computed once,
\* where they are built, and not again at every later look at a cell.
Fn(f) == f @@ <<>>
Rows(rs) == [i \in 1..Len(rs) |-> Fn(rs[i])] \o <<>>
Stored(df) == [cols |-> df.cols, dt |-> Fn(df.dt), rows |-> Rows(df.rows)]

\* df[c] = values (one per row), as dtype d.
WithColumn(df, c, vals, d) ==
    Stored([cols |-> IF HasCol(df, c) THEN df.cols ELSE Append(df.cols, c),
     dt   |-> [k \in ColSet(df) \cup {c} |-> IF k = c THEN d ELSE df.dt[k]],
     rows |-> [i \in 1..Len(df.rows) |->
                 [k \in ColSet(df) \cup {c} |->
                    IF k = c THEN vals[i] ELSE df.rows[i][k]]]])

\* The rows at the positions of keep, in order.
RECURSIVE PickRows(_, _, _)
PickRows(rows, keep, i) ==
    IF i > Len(rows) THEN <<>>
    ELSE (IF i \in keep THEN <<rows[i]>> ELSE <<>>) \o PickRows(rows, keep, i + 1)
FilterRows(df, keep) == [df EXCEPT !.rows = PickRows(df.rows, keep, 1)]

\* pandas' is_object_dtype(...) or is_string_dtype(...)
IsTextDtype(d) == d \in {"object", "string"}
\* pandas' is_numeric_dtype(...)
IsNumericDtype(d) == d \in {"int64", "float64", "Int8", "Int16"}


(***************************************************************************)
(* cleaning_rules.py                                                       *)
(***************************************************************************)
ID_COLS == <<"crash_record_id", "vehicle_id", "person_id">>
NUMERIC_COLS == <<"posted_speed_limit", "lane_cnt", "street_no">>
CATEGORICAL_COLS ==
    <<"traffic_control_device", "device_condition", "weather_condition",
      "lighting_condition", "trafficway_type", "alignment",
      "roadway_surface_cond", "road_defect", "street_name",
      "street_direction", "crash_type", "make", "model",
      "travel_direction", "person_type">>
DATE_COL == "crash_date"
DERIVED_DATE_COLS == <<"crash_year", "crash_month", "crash_day", "crash_hour">>
KEEP_COLS == ID_COLS \o NUMERIC_COLS \o CATEGORICAL_COLS \o DERIVED_DATE_COLS
PK_COL == "crash_record_id"
PK_ALIASES == <<"record_id", "id", "crash_id">>
SeqSet(q) == {q[i] : i \in 1..Len(q)}

YES_NO_TRUE_FALSE ==
    (<<"y">> :> 1) @@ (<<"y", "e", "s">> :> 1) @@ (<<"t", "r", "u", "e">> :> 1)
    @@ (<<"t">> :> 1) @@ (<<"1">> :> 1)
    @@ (<<"n">> :> 0) @@ (<<"n", "o">> :> 0) @@ (<<"f", "a", "l", "s", "e">> :> 0)
    @@ (<<"f">> :> 0) @@ (<<"0">> :> 0)

\* series.astype("string").str.strip().str.lower()
to_lower_stripped(v) == StrLower(StrStrip(AsString(v)))

\* One cell of  s_str.map(YES_NO_TRUE_FALSE).astype("Int8"): a value that is
\* not a key of the mapping becomes <NA>.
MapYesNo(v) ==
    LET k == to_lower_stripped(v)
    IN  IF k.t = "str" /\ k.s \in DOMAIN YES_NO_TRUE_FALSE
        THEN N(YES_NO_TRUE_FALSE[k.s]) ELSE Null

\* Whether _map_yes_no_to_int finalises the series as Int8: the mapped series,
\* after dropna(), is non-empty (its values are 0/1 by construction).
BoolLike(vals) == \E i \in 1..Len(vals) : ~IsNull(MapYesNo(vals[i]))

map_yes_no_to_int(vals) ==
    IF BoolLike(vals) THEN [i \in 1..Len(vals) |-> MapYesNo(vals[i])] ELSE vals

\* pd.to_numeric(..., errors="coerce") on one cell.
ToNumeric(v) ==
    CASE v.t = "str" -> IF IsDigits(Strip(v.s)) THEN N(StrToInt(Strip(v.s))) ELSE Null
      [] OTHER -> v

NumericDtype(vals) ==
    IF \E i \in 1..Len(vals) : vals[i].t # "num" THEN "float64" ELSE "int64"

RECURSIVE coerce_cols(_, _)
coerce_cols(df, todo) ==
    IF todo = <<>> THEN df
    ELSE LET c == Head(todo)
             vals == [i \in 1..Height(df) |-> ToNumeric(df.rows[i][c])]
         IN  coerce_cols(IF HasCol(df, c)
                         THEN WithColumn(df, c, vals,
                                  IF IsNumericDtype(df.dt[c]) THEN df.dt[c]
                                  ELSE NumericDtype(vals))
                         ELSE df, Tail(todo))
coerce_numeric(df) == coerce_cols(df, NUMERIC_COLS)

RECURSIVE normalize_cols(_, _)
normalize_cols(df, todo) ==
    IF todo = <<>> THEN df
    ELSE LET c == Head(todo)
             ids == [i \in 1..Height(df) |-> StrStrip(AsString(df.rows[i][c]))]
             txt == [i \in 1..Height(df) |-> to_lower_stripped(df.rows[i][c])]
         IN  normalize_cols(
                 IF c \in SeqSet(ID_COLS) THEN WithColumn(df, c, ids, "string")
                 ELSE IF IsTextDtype(df.dt[c]) THEN WithColumn(df, c, txt, "string")
                 ELSE df, Tail(todo))
normalize_text(df) == normalize_cols(df, df.cols)

\* Returns [df, bool_cols].
RECURSIVE convert_cols(_, _, _)
convert_cols(df, bools, todo) ==
    IF todo = <<>> THEN [df |-> df, bool_cols |-> bools]
    ELSE LET c == Head(todo)
             conv == IsTextDtype(df.dt[c]) /\ BoolLike(Column(df, c))
         IN  convert_cols(
                 IF conv THEN WithColumn(df, c, map_yes_no_to_int(Column(df, c)), "Int8")
                 ELSE df,
                 IF conv THEN bools \cup {c} ELSE bools, Tail(todo))
convert_yes_no(df) == convert_cols(df, {}, df.cols)

\* A half-integer, num + 1/2: the median of an even number of integers.
HalfN(num) == [t |-> "half", s |-> <<>>, n |-> num]

\* pd.to_datetime(..., errors="coerce", utc=True) on one cell.  Of the formats
\* pandas reads the model has the ISO date YYYY-MM-DD (midnight UTC); a number
\* is nanoseconds since the epoch.
IsIsoDate(s) ==
    /\ Len(s) = 10 /\ s[5] = "-" /\ s[8] = "-"
    /\ IsDigits(SubSeq(s, 1, 4)) /\ IsDigits(SubSeq(s, 6, 7)) /\ IsDigits(SubSeq(s, 9, 10))
    /\ StrToInt(SubSeq(s, 6, 7)) \in 1..12
    /\ StrToInt(SubSeq(s, 9, 10)) \in 1..28     \* the days every month has
NoDate == [ok |-> FALSE, year |-> 0, month |-> 0, day |-> 0, hour |-> 0]
ToDatetime(v) ==
    CASE v.t = "str" /\ IsIsoDate(Strip(v.s)) ->
             [ok |-> TRUE, year |-> StrToInt(SubSeq(Strip(v.s), 1, 4)),
              month |-> StrToInt(SubSeq(Strip(v.s), 6, 7)),
              day |-> StrToInt(SubSeq(Strip(v.s), 9, 10)), hour |-> 0]
      [] v.t = "num" -> [ok |-> TRUE, year |-> 1970, month |-> 1, day |-> 1, hour |-> 0]
      [] OTHER -> NoDate

\* dt.dt.year / month / day / hour as a column; <NA> where the date is NaT.
DatePart(df, part) ==
    [i \in 1..Height(df) |->
        LET d == ToDatetime(df.rows[i][DATE_COL])
        IN  IF d.ok THEN N(d[part]) ELSE Null]

split_crash_datetime(df) ==
    IF ~HasCol(df, DATE_COL) THEN df
    ELSE WithColumn(WithColumn(WithColumn(WithColumn(df,
             "crash_year", DatePart(df, "year"), "Int16"),
             "crash_month", DatePart(df, "month"), "Int8"),
             "crash_day", DatePart(df, "day"), "Int8"),
             "crash_hour", DatePart(df, "hour"), "Int8")

\* The non-null numbers of a column, ascending.
RECURSIVE SortInts(_)
SortInts(q) ==
    IF q = <<>> THEN <<>>
    ELSE LET m == CHOOSE i \in 1..Len(q) : \A j \in 1..Len(q) : q[i] <= q[j]
         IN  <<q[m]>> \o SortInts(SubSeq(q, 1, m - 1) \o SubSeq(q, m + 1, Len(q)))
RECURSIVE NonNullNums(_)
NonNullNums(vals) ==
    IF vals = <<>> THEN <<>>
    ELSE (IF Head(vals).t = "num" THEN <<Head(vals).n>> ELSE <<>>)
         \o NonNullNums(Tail(vals))

\* Series.median(skipna=True); <NA> when there is no value.
Median(vals) ==
    LET q == SortInts(NonNullNums(vals))
        k == Len(q)
    IN  IF k = 0 THEN Null
        ELSE IF k % 2 = 1 THEN N(q[(k + 1) \div 2])
        ELSE LET sum == q[k \div 2] + q[k \div 2 + 1]
             IN  IF sum % 2 = 0 THEN N(sum \div 2) ELSE HalfN(sum \div 2)

FillNa(vals, fill) == [i \in 1..Len(vals) |-> IF IsNull(vals[i]) THEN fill ELSE vals[i]]

\* fillna on a nullable integer column (Int8, Int16) raises TypeError when
\* there is a null to fill and the fill value is not a whole number.
FillRaises(df, c, med) ==
    /\ df.dt[c] \in {"Int8", "Int16"}
    /\ med.t = "half"
    /\ \E i \in 1..Height(df) : IsNull(df.rows[i][c])

\* The first loop of _impute_missing; [ok, df].
RECURSIVE impute_numeric(_, _, _)
impute_numeric(df, bool_cols, todo) ==
    IF todo = <<>> THEN [ok |-> TRUE, df |-> df]
    ELSE LET c == Head(todo)
             m == Median(Column(df, c))
             med == IF IsNull(m) THEN N(0) ELSE m
         IN  IF c \in bool_cols \/ ~IsNumericDtype(df.dt[c])
             THEN impute_numeric(df, bool_cols, Tail(todo))
             ELSE IF FillRaises(df, c, med) THEN [ok |-> FALSE, df |-> df]
             ELSE impute_numeric(WithColumn(df, c, FillNa(Column(df, c), med), df.dt[c]),
                                 bool_cols, Tail(todo))

MISSING == S(<<"m", "i", "s", "s", "i", "n", "g">>)
\* The second loop of _impute_missing.
RECURSIVE impute_text(_, _)
impute_text(df, todo) ==
    IF todo = <<>> THEN df
    ELSE LET c == Head(todo)
         IN  impute_text(
                 IF IsTextDtype(df.dt[c]) /\ c \notin SeqSet(ID_COLS)
                 THEN WithColumn(df, c, FillNa(Column(df, c), MISSING), df.dt[c])
                 ELSE df, Tail(todo))

impute_missing(df, bool_cols) ==
    LET r == impute_numeric(df, bool_cols, df.cols)
    IN  IF r.ok THEN [ok |-> TRUE, df |-> impute_text(r.df, r.df.cols)] ELSE r

\* df.rename(columns={old: new})
RenameCol(df, old, new) ==
    LET nm(k) == IF k = old THEN new ELSE k
        back(k) == IF k = new THEN old ELSE k
        ks == {nm(k) : k \in ColSet(df)}
    IN  Stored([cols |-> [i \in 1..Len(df.cols) |-> nm(df.cols[i])],
         dt   |-> [k \in ks |-> df.dt[back(k)]],
         rows |-> [i \in 1..Len(df.rows) |-> [k \in ks |-> df.rows[i][back(k)]]]])

\* The first alias present, in the order of the alias list; "" when none is.
RECURSIVE FirstAlias(_, _)
FirstAlias(df, alts) ==
    IF alts = <<>> THEN ""
    ELSE IF HasCol(df, Head(alts)) THEN Head(alts) ELSE FirstAlias(df, Tail(alts))

ensure_pk(df) ==
    IF HasCol(df, PK_COL) \/ FirstAlias(df, PK_ALIASES) = "" THEN df
    ELSE RenameCol(df, FirstAlias(df, PK_ALIASES), PK_COL)

\* df.drop_duplicates(subset=[c], keep="last"): a row stays when no later row
\* has the same cell in c (nulls equal one another).
drop_duplicates_last(df, c) ==
    FilterRows(df, {i \in 1..Height(df) :
                      \A j \in (i + 1)..Height(df) : df.rows[j][c] # df.rows[i][c]})

\* df[col] = df[col].astype("string").str.strip(), then the rows whose col is
\* neither null nor "".
pk_hygiene(df) ==
    LET d == WithColumn(df, PK_COL,
                 [i \in 1..Height(df) |-> StrStrip(AsString(df.rows[i][PK_COL]))],
                 "string")
    IN  FilterRows(d, {i \in 1..Height(d) :
                         ~IsNull(d.rows[i][PK_COL]) /\ d.rows[i][PK_COL] # S(<<>>)})

\* df[keep] for keep = the KEEP_COLS present, in the order of KEEP_COLS.
RECURSIVE KeepList(_, _)
KeepList(df, todo) ==
    IF todo = <<>> THEN <<>>
    ELSE (IF HasCol(df, Head(todo)) THEN <<Head(todo)>> ELSE <<>>)
         \o KeepList(df, Tail(todo))
project(df, keep) ==
    Stored([cols |-> keep,
     dt   |-> [k \in SeqSet(keep) |-> df.dt[k]],
     rows |-> [i \in 1..Len(df.rows) |-> [k \in SeqSet(keep) |-> df.rows[i][k]]]])

\* apply_cleaning: [ok, err, df]; ok = FALSE when it raises.  Its steps in the
\* order of the code, last first: the PK hygiene and the projection,
clean_project(df5) ==
    [ok |-> TRUE, err |-> "", df |-> project(df5, KeepList(df5, KEEP_COLS))]
\* the imputation, which may raise,
clean_imputed(imp) ==
    IF ~imp.ok THEN [ok |-> FALSE, err |-> "TypeError", df |-> EmptyDf]
    ELSE clean_project(pk_hygiene(imp.df))
\* the date split after the yes/no conversion,
clean_converted(cv) ==
    clean_imputed(impute_missing(split_crash_datetime(cv.df), cv.bool_cols))
\* the de-duplication and the type fixes once the PK column is settled,
clean_with_pk(df1) ==
    IF ~HasCol(df1, PK_COL) THEN [ok |-> FALSE, err |-> "ValueError", df |-> EmptyDf]
    ELSE clean_converted(convert_yes_no(normalize_text(coerce_numeric(
             drop_duplicates_last(df1, PK_COL)))))
apply_cleaning(df0) == clean_with_pk(ensure_pk(df0))

(***************************************************************************)
(* duckdb_writer.py.  A table: whether it exists, whether it carries the   *)
(* PRIMARY KEY constraint, its columns in order with their SQL types, and  *)
(* its rows in insertion order.                                            *)
(***************************************************************************)
NoTable == [exists |-> FALSE, pk |-> FALSE, cols |-> <<>>, types |-> <<>>, rows |-> <<>>]
TableColSet(tbl) == SeqSet(tbl.cols)

\* The SQL type DuckDB gives a DataFrame column (_infer_df_types, and the
\* CREATE TABLE ... AS SELECT of _ensure_table).
SqlType(d) ==
    CASE d = "int64" -> "BIGINT" [] d = "float64" -> "DOUBLE"
      [] d = "Int8" -> "TINYINT" [] d = "Int16" -> "SMALLINT"
      [] OTHER -> "VARCHAR"

\* The largest value of an SQL integer type (of BIGINT, as far as the model goes).
IntMax(ty) == IF ty = "TINYINT" THEN 127
              ELSE IF ty = "SMALLINT" THEN 32767 ELSE 2147483647

\* The cast INSERT applies to a cell for a column of SQL type ty:
\* [ok, v]; ok = FALSE is a ConversionException.
CastTo(v, ty) ==
    LET whole == IF v.t = "half" THEN N(v.n + 1) ELSE v    \* rounds half up
        num == IF v.t = "str"
               THEN (IF IsDigits(Strip(v.s)) THEN N(StrToInt(Strip(v.s))) ELSE Null)
               ELSE v
    IN  CASE IsNull(v) -> [ok |-> TRUE, v |-> Null]
          [] ty = "VARCHAR" ->
               [ok |-> TRUE, v |-> IF v.t = "num" THEN S(IntToStr(v.n)) ELSE v]
          [] ty = "DOUBLE" -> [ok |-> ~IsNull(num), v |-> num]
          [] OTHER ->
               IF IsNull(num) THEN [ok |-> FALSE, v |-> Null]
               ELSE LET w == IF num.t = "half" THEN N(num.n + 1) ELSE num
                    IN  [ok |-> w.n <= IntMax(ty), v |-> w]

\* Whether the stored rows allow a PRIMARY KEY on pk: no null, no repeat.
PkHolds(rows, pk) ==
    /\ \A i \in 1..Len(rows) : ~IsNull(rows[i][pk])
    /\ \A i, j \in 1..Len(rows) : rows[i][pk] = rows[j][pk] => i = j

\* _ensure_table: CREATE TABLE IF NOT EXISTS ... AS SELECT * FROM df.head(0),
\* then ALTER TABLE ... ADD PRIMARY KEY: [ok, tbl].  On a table that has the
\* constraint the ALTER raises CatalogException, which is swallowed; on stored
\* rows that break the constraint it raises ConstraintException, which is not.
ensure_table(tbl, df, pk) ==
    IF ~tbl.exists
    THEN [ok |-> TRUE,
          tbl |-> [exists |-> TRUE, pk |-> TRUE, cols |-> df.cols,
                   types |-> Fn([k \in ColSet(df) |-> SqlType(df.dt[k])]), rows |-> <<>>]]
    ELSE IF tbl.pk THEN [ok |-> TRUE, tbl |-> tbl]
    ELSE IF pk \in TableColSet(tbl) /\ PkHolds(tbl.rows, pk)
    THEN [ok |-> TRUE, tbl |-> [tbl EXCEPT !.pk = TRUE]]
    ELSE [ok |-> FALSE, tbl |-> tbl]

\* _evolve_schema: ALTER TABLE ... ADD COLUMN for the columns of df the table
\* lacks, in df's order; the stored rows get NULL there.
RECURSIVE NeededCols(_, _)
NeededCols(tbl, todo) ==
    IF todo = <<>> THEN <<>>
    ELSE (IF Head(todo) \in TableColSet(tbl) THEN <<>> ELSE <<Head(todo)>>)
         \o NeededCols(tbl, Tail(todo))
\* _evolve_schema, had it re-declared the columns of df the table has with
\* df's types.
evolve_schema_retype(tbl, df) ==
    LET needed == NeededCols(tbl, df.cols)
        ks == TableColSet(tbl) \cup SeqSet(needed)
    IN  [tbl EXCEPT
            !.cols = tbl.cols \o needed,
            !.types = Fn([k \in ks |-> IF k \in ColSet(df) THEN SqlType(df.dt[k])
                                    ELSE tbl.types[k]]),
            !.rows = Rows([i \in 1..Len(tbl.rows) |->
                        [k \in ks |-> IF k \in TableColSet(tbl) THEN tbl.rows[i][k]
                                      ELSE Null]])]
evolve_schema(tbl, df) ==
    LET needed == NeededCols(tbl, df.cols)
        ks == TableColSet(tbl) \cup SeqSet(needed)
    IN  [tbl EXCEPT
            !.cols = tbl.cols \o needed,
            !.types = Fn([k \in ks |-> IF k \in TableColSet(tbl) THEN tbl.types[k]
                                    ELSE SqlType(df.dt[k])]),
            !.rows = Rows([i \in 1..Len(tbl.rows) |->
                        [k \in ks |-> IF k \in TableColSet(tbl) THEN tbl.rows[i][k]
                                      ELSE Null]])]

\* ON CONFLICT (pk) on a table whose constraint matches no stored row.
Matching_none(rows, pk, v) == {}
\* The rows of a table whose pk cell is v.
Matching(rows, pk, v) == {i \in 1..Len(rows) : rows[i][pk] = v}

\* INSERT INTO table (cols) SELECT cols FROM clean_df ON CONFLICT (pk) DO UPDATE
\* SET non_pk = excluded.non_pk, row by row over rows already cast: a new pk is
\* appended (NULL in the columns the batch lacks), a stored pk has the batch's
\* non-pk columns overwritten.
\* InsertRows as INSERT OR REPLACE: the stored row of a pk of the batch is
\* replaced whole, NULL in the columns the batch lacks.
InsertRowsReplace(tbl, pk, cols, todo) ==
    LET fresh(r) == Fn([k \in TableColSet(tbl) |-> IF k \in cols THEN r[k] ELSE Null])
        lastOf(v) == CHOOSE b \in 1..Len(todo) :
                       /\ todo[b][pk] = v
                       /\ \A c \in (b + 1)..Len(todo) : todo[c][pk] # v
        inBatch(v) == \E b \in 1..Len(todo) : todo[b][pk] = v
        new == SelectSeq([b \in 1..Len(todo) |-> fresh(todo[b])],
                         LAMBDA r : Matching(tbl.rows, pk, r[pk]) = {})
    IN  [tbl EXCEPT !.rows = Rows([i \in 1..Len(tbl.rows) |->
                                 IF inBatch(tbl.rows[i][pk])
                                 THEN fresh(todo[lastOf(tbl.rows[i][pk])])
                                 ELSE tbl.rows[i]] \o new)]
\* InsertRows as a plain INSERT without the ON CONFLICT clause taking effect:
\* every row of the batch is appended.
InsertRowsAppend(tbl, pk, cols, todo) ==
    [tbl EXCEPT !.rows = @ \o [i \in 1..Len(todo) |->
        [k \in TableColSet(tbl) |-> IF k \in cols THEN todo[i][k] ELSE Null]]]

RECURSIVE InsertRows(_, _, _, _)
InsertRows(tbl, pk, cols, todo) ==
    IF todo = <<>> THEN tbl
    ELSE LET r == Head(todo)
             hit == Matching(tbl.rows, pk, r[pk])
             fresh == Fn([k \in TableColSet(tbl) |-> IF k \in cols THEN r[k] ELSE Null])
             upd(old) == [k \in TableColSet(tbl) |->
                            IF k \in cols /\ k # pk THEN r[k] ELSE old[k]]
         IN  InsertRows(
                 IF hit = {} THEN [tbl EXCEPT !.rows = Append(@, fresh)]
                 ELSE [tbl EXCEPT !.rows = Rows([i \in 1..Len(tbl.rows) |->
                          IF i \in hit THEN upd(tbl.rows[i]) ELSE tbl.rows[i]])],
                 pk, cols, Tail(todo))

\* The batch cast to the table's column types.
CastRows(tbl, df) ==
    Rows([i \in 1..Height(df) |-> [k \in ColSet(df) |-> CastTo(df.rows[i][k], tbl.types[k]).v]])
CastFails(tbl, df) ==
    \E i \in 1..Height(df) : \E k \in ColSet(df) : ~CastTo(df.rows[i][k], tbl.types[k]).ok

\* Two rows of the batch with one pk: neither DO UPDATE nor the constraint
\* accepts them.
InnerConflict(rows, pk) ==
    \E i, j \in 1..Len(rows) : i # j /\ rows[i][pk] = rows[j][pk]
RECURSIVE FirstOfEachPk(_, _, _)
FirstOfEachPk(rows, pk, i) ==
    IF i > Len(rows) THEN <<>>
    ELSE (IF \E j \in 1..(i - 1) : rows[j][pk] = rows[i][pk] THEN <<>> ELSE <<rows[i]>>)
         \o FirstOfEachPk(rows, pk, i + 1)

\* SELECT COUNT(*) FROM table t JOIN clean_df s ON t.pk = s.pk
JoinCount(tbl, rows, pk) ==
    LET RECURSIVE Cnt(_)
        Cnt(i) == IF i > Len(rows) THEN 0
                  ELSE Cardinality(Matching(tbl.rows, pk, rows[i][pk])) + Cnt(i + 1)
    IN  Cnt(1)

\* DuckDBWriter.upsert(table, df, pk): [ok, err, ret, tbl].  skips is what
\* the engine does with a second row of one pk under ON CONFLICT DO NOTHING
\* (the statement when the batch has no column but pk): TRUE, it skips the
\* row; FALSE, it raises.  Its steps, last first: the count of the join,
upsert_count(t2, rows, pk) ==
    [ok |-> TRUE, err |-> "", ret |-> JoinCount(t2, rows, pk), tbl |-> t2]
\* the INSERT of the rows cast to the table's types,
upsert_insert(df, pk, skips, t1, rows) ==
    LET doNothing == ColSet(df) = {pk}
        Raise(e) == [ok |-> FALSE, err |-> e, ret |-> 0, tbl |-> t1]
    IN  IF CastFails(t1, df) THEN Raise("ConversionException")
        ELSE IF \E i \in 1..Len(rows) : IsNull(rows[i][pk]) THEN Raise("ConstraintException")
        ELSE IF InnerConflict(rows, pk) /\ ~(doNothing /\ skips)
        THEN Raise("InvalidInputException")
        ELSE upsert_count(InsertRows(t1, pk, ColSet(df),
                              IF doNothing THEN FirstOfEachPk(rows, pk, 1) ELSE rows),
                          rows, pk)
\* _evolve_schema after _ensure_table,
upsert_ensured(tbl, df, pk, skips, t0) ==
    IF ~t0.ok THEN [ok |-> FALSE, err |-> "ConstraintException", ret |-> 0, tbl |-> tbl]
    ELSE upsert_insert(df, pk, skips, evolve_schema(t0.tbl, df),
                       CastRows(evolve_schema(t0.tbl, df), df))
upsert(tbl, df, pk, skips) ==
    IF IsEmptyDf(df) THEN [ok |-> TRUE, err |-> "", ret |-> 0, tbl |-> tbl]
    ELSE IF ~HasCol(df, pk)
    THEN [ok |-> FALSE, err |-> "ValueError", ret |-> 0, tbl |-> tbl]
    ELSE upsert_ensured(tbl, df, pk, skips, ensure_table(tbl, df, pk))

\* _init_meta: the ledger table _clean_runs, empty, corr_id its PRIMARY KEY.
\* (The first line of the statement reads "CREATE TABLE IF NOT E(" in the
\* source; it is taken as IF NOT EXISTS _clean_runs (, the table record_run
\* inserts into.)
init_meta == <<>>

\* record_run: INSERT ... ON CONFLICT (corr_id) DO UPDATE SET table_name,
\* row_count, processed_at = now().
record_run_append(led, corr_id, table, rows, now) ==
    Append(led, [corr_id |-> corr_id, table_name |-> table, row_count |-> rows,
                 processed_at |-> now])
\* record_run with ON CONFLICT (corr_id) DO NOTHING: the first row stays.
record_run_keep(led, corr_id, table, rows, now) ==
    IF \E i \in 1..Len(led) : led[i].corr_id = corr_id THEN led
    ELSE Append(led, [corr_id |-> corr_id, table_name |-> table, row_count |-> rows,
                      processed_at |-> now])
record_run(led, corr_id, table, rows, now) ==
    LET hit == {i \in 1..Len(led) : led[i].corr_id = corr_id}
        new == [corr_id |-> corr_id, table_name |-> table, row_count |-> rows,
                processed_at |-> now]
    IN  IF hit = {} THEN Append(led, new)
        ELSE [i \in 1..Len(led) |-> IF i \in hit THEN new ELSE led[i]]

(***************************************************************************)
(* transformer.py: the merge of the raw datasets.  A polars DataFrame has  *)
(* the shape of the DataFrames above, with the dtypes Utf8, Int64, UInt32, *)
(* List and Null; a List cell holds its strings in s.                      *)
(***************************************************************************)
L(items) == [t |-> "list", s |-> items, n |-> 0]

\* polars' DataFrame.is_empty(): no rows.
IsEmptyPl(df) == Len(df.rows) = 0

\* The characters of the model's strings in code-point order, for sort().
CharOrder ==
    <<" ", "\"", ",", "-", "0", "1", "2", "3", "4", "5", "6", "7", "8", "9",
      "A", "B", "D", "E", "F", "M", "N", "O", "R", "S", "T", "W", "X", "Y", "[", "]",
      "a", "e", "f", "g", "i", "l", "m", "n", "o", "r", "s", "t", "u", "x", "y">>
CharRank(c) == CHOOSE i \in 1..Len(CharOrder) : CharOrder[i] = c
RECURSIVE LexLeq(_, _)
LexLeq(a, b) ==
    IF a = <<>> THEN TRUE
    ELSE IF b = <<>> THEN FALSE
    ELSE IF Head(a) = Head(b) THEN LexLeq(Tail(a), Tail(b))
    ELSE CharRank(Head(a)) < CharRank(Head(b))
\* unique().sort() of a set of strings.
RECURSIVE SortSet(_)
SortSet(strs) ==
    IF strs = {} THEN <<>>
    ELSE LET m == CHOOSE x \in strs : \A y \in strs : LexLeq(x, y)
         IN  <<m>> \o SortSet(strs \ {m})

\* c.strip().lower() on the column names of the raw datasets.
LowerName(c) ==
    CASE c = "CRASH_RECORD_ID" -> "crash_record_id"
      [] c = "Crash_Record_Id" -> "crash_record_id"
      [] c = "MAKE" -> "make"
      [] c = " street_direction" -> "street_direction"
      [] OTHER -> c

\* f"{prefix}_count", f"{prefix}_{c}_list" and f"{name}_json".
CountName(prefix) == IF prefix = "veh" THEN "veh_count" ELSE "ppl_count"
ListName(prefix, c) ==
    CASE prefix = "veh" /\ c = "make" -> "veh_make_list"
      [] prefix = "veh" /\ c = "model" -> "veh_model_list"
      [] prefix = "ppl" /\ c = "person_type" -> "ppl_person_type_list"
      [] prefix = "ppl" /\ c = "sex" -> "ppl_sex_list"
      [] OTHER -> "other_list"
JsonName(c) ==
    CASE c = "veh_make_list" -> "veh_make_list_json"
      [] c = "veh_model_list" -> "veh_model_list_json"
      [] c = "ppl_person_type_list" -> "ppl_person_type_list_json"
      [] c = "ppl_sex_list" -> "ppl_sex_list_json"
      [] OTHER -> "other_list_json"

\* The rows that are the first with their value(s) in the columns of subset.
RECURSIVE FirstOfEach(_, _, _)
FirstOfEach(rows, subset, i) ==
    IF i > Len(rows) THEN <<>>
    ELSE (IF \E j \in 1..(i - 1) : \A c \in subset : rows[j][c] = rows[i][c]
          THEN <<>> ELSE <<rows[i]>>)
         \o FirstOfEach(rows, subset, i + 1)

\* df.unique(subset=..., keep="first", maintain_order=True)
unique_first(df, subset) == [df EXCEPT !.rows = FirstOfEach(df.rows, subset, 1)]

\* df.rename({c: c.strip().lower()}): [ok, df]; two columns that get one name
\* make polars raise DuplicateError.
rename_lower(df) ==
    LET ks == {LowerName(c) : c \in ColSet(df)}
        old(k) == CHOOSE c \in ColSet(df) : LowerName(c) = k
    IN  IF Cardinality(ks) < Len(df.cols) THEN [ok |-> FALSE, df |-> df]
        ELSE [ok |-> TRUE,
              df |-> Stored([cols |-> [i \in 1..Len(df.cols) |-> LowerName(df.cols[i])],
                      dt   |-> [k \in ks |-> df.dt[old(k)]],
                      rows |-> [i \in 1..Len(df.rows) |->
                                  [k \in ks |-> df.rows[i][old(k)]]]])]

\* basic_standardize: [ok, df].
basic_standardize(df) ==
    IF IsEmptyPl(df) THEN [ok |-> TRUE, df |-> df]
    ELSE LET r == rename_lower(df)
         IN  IF r.ok THEN [ok |-> TRUE, df |-> unique_first(r.df, ColSet(r.df))] ELSE r

\* The first n elements of a sequence.
FirstN(q, n) == SubSeq(q, 1, IF Len(q) < n THEN Len(q) ELSE n)

\* aggregate_many_to_one: one row per id, in the order the ids first appear,
\* with the row count and, for the first five Utf8 columns, the sorted list of
\* the distinct non-null values.
aggregate_many_to_one(df, id_col, prefix) ==
    IF IsEmptyPl(df) THEN df
    ELSE LET keep_fields == SelectSeq(df.cols, LAMBDA c : c # id_col)
             text_cols == FirstN(SelectSeq(keep_fields, LAMBDA c : df.dt[c] = "Utf8"), 5)
             keys == FirstOfEach(df.rows, {id_col}, 1)
             group(k) == {i \in 1..Height(df) : df.rows[i][id_col] = k}
             vals(k, c) == {df.rows[i][c].s : i \in {j \in group(k) : ~IsNull(df.rows[j][c])}}
             lists == [i \in 1..Len(text_cols) |-> ListName(prefix, text_cols[i])]
             src(k) == CHOOSE c \in SeqSet(text_cols) : ListName(prefix, c) = k
             ks == {id_col, CountName(prefix)} \cup SeqSet(lists)
         IN  Stored([cols |-> <<id_col, CountName(prefix)>> \o lists,
              dt   |-> [k \in ks |-> IF k = id_col THEN df.dt[id_col]
                                     ELSE IF k = CountName(prefix) THEN "UInt32"
                                     ELSE "List"],
              rows |-> [i \in 1..Len(keys) |->
                          [k \in ks |->
                             IF k = id_col THEN keys[i][id_col]
                             ELSE IF k = CountName(prefix)
                             THEN N(Cardinality(group(keys[i][id_col])))
                             ELSE L(SortSet(vals(keys[i][id_col], src(k))))]]])

\* out.join(agg, on=id_col, how="inner") in place of the left join: the rows
\* of out without an agg row are dropped.
left_join_inner(out, agg, id_col) ==
    LET extra == SelectSeq(agg.cols, LAMBDA c : c # id_col)
        ks == ColSet(out) \cup SeqSet(extra)
        match(r) == {j \in 1..Height(agg) :
                       ~IsNull(r[id_col]) /\ agg.rows[j][id_col] = r[id_col]}
        hits == SelectSeq(out.rows, LAMBDA r : match(r) # {})
    IN  Stored([cols |-> out.cols \o extra,
         dt   |-> [k \in ks |-> IF k \in ColSet(out) THEN out.dt[k] ELSE agg.dt[k]],
         rows |-> [i \in 1..Len(hits) |->
                     [k \in ks |->
                        IF k \in ColSet(out) THEN hits[i][k]
                        ELSE agg.rows[CHOOSE j \in match(hits[i]) : TRUE][k]]]])
\* out.join(agg, on=id_col, how="left"): every row of out, with the columns of
\* the agg row of the same id (a null id matches nothing), null without one.
left_join(out, agg, id_col) ==
    LET extra == SelectSeq(agg.cols, LAMBDA c : c # id_col)
        ks == ColSet(out) \cup SeqSet(extra)
        match(r) == {j \in 1..Height(agg) :
                       ~IsNull(r[id_col]) /\ agg.rows[j][id_col] = r[id_col]}
    IN  Stored([cols |-> out.cols \o extra,
         dt   |-> [k \in ks |-> IF k \in ColSet(out) THEN out.dt[k] ELSE agg.dt[k]],
         rows |-> [i \in 1..Height(out) |->
                     [k \in ks |->
                        IF k \in ColSet(out) THEN out.rows[i][k]
                        ELSE IF match(out.rows[i]) = {} THEN Null
                        ELSE agg.rows[CHOOSE j \in match(out.rows[i]) : TRUE][k]]]])

\* _ensure_id: a column whose lower-cased name is the id is renamed to it.
ensure_id(df, id_lower) ==
    IF IsEmptyPl(df) \/ HasCol(df, id_lower) THEN df
    ELSE IF \E c \in ColSet(df) : LowerName(c) = id_lower
    THEN RenameCol(df, CHOOSE c \in ColSet(df) : LowerName(c) = id_lower, id_lower)
    ELSE df

\* merge_crash_vehicles_people: [ok, df]; ok = FALSE when polars raises: a
\* rename that collides, a join on a frame without the id column, and, on the
\* polars builds that resolve the subset before they look at the rows
\* (strict), unique(subset=[id]) on the empty frame.  Its steps, last first:
\* merge_crash_vehicles_people without the final unique(subset=[id]).
merge_unique_none(out1, ppl_agg, id_lower) ==
    [ok |-> TRUE,
     df |-> IF ~IsEmptyPl(ppl_agg) THEN left_join(out1, ppl_agg, id_lower) ELSE out1]
\* the join of the people aggregate and the final unique,
merge_unique(out1, ppl_agg, id_lower) ==
    [ok |-> TRUE,
     df |-> unique_first(IF ~IsEmptyPl(ppl_agg) THEN left_join(out1, ppl_agg, id_lower)
                         ELSE out1, {id_lower})]
\* the join of the vehicles aggregate,
merge_join(crashes, veh_agg, ppl_agg, id_lower, strict) ==
    IF ~HasCol(crashes, id_lower)
    THEN (IF strict \/ ~IsEmptyPl(veh_agg) \/ ~IsEmptyPl(ppl_agg)
          THEN [ok |-> FALSE, df |-> EmptyDf] ELSE [ok |-> TRUE, df |-> crashes])
    ELSE merge_unique(IF ~IsEmptyPl(veh_agg) THEN left_join(crashes, veh_agg, id_lower)
                      ELSE crashes, ppl_agg, id_lower)
\* the aggregates of the related datasets,
merge_aggregate(crashes, vehicles, people, id_lower, strict) ==
    IF ~IsEmptyPl(crashes) /\ ~HasCol(crashes, id_lower)
    THEN [ok |-> TRUE, df |-> crashes]
    ELSE merge_join(crashes,
             IF ~IsEmptyPl(vehicles) /\ HasCol(vehicles, id_lower)
             THEN aggregate_many_to_one(vehicles, id_lower, "veh") ELSE EmptyDf,
             IF ~IsEmptyPl(people) /\ HasCol(people, id_lower)
             THEN aggregate_many_to_one(people, id_lower, "ppl") ELSE EmptyDf,
             id_lower, strict)
\* the id column of the standardized datasets.
merge_standardized(c1, v1, p1, id_lower, strict) ==
    IF ~c1.ok \/ ~v1.ok \/ ~p1.ok THEN [ok |-> FALSE, df |-> EmptyDf]
    ELSE merge_aggregate(ensure_id(c1.df, id_lower), ensure_id(v1.df, id_lower),
                         ensure_id(p1.df, id_lower), id_lower, strict)
merge_crash_vehicles_people(crashes0, vehicles0, people0, id_col, strict) ==
    merge_standardized(basic_standardize(crashes0), basic_standardize(vehicles0),
                       basic_standardize(people0), LowerName(id_col), strict)

\* json.dumps of a list of strings: ["a", "b"].
RECURSIVE JsonItems(_)
JsonItems(items) ==
    IF items = <<>> THEN <<>>
    ELSE <<"\"">> \o Head(items) \o <<"\"">>
         \o (IF Len(items) > 1 THEN <<",", " ">> ELSE <<>>) \o JsonItems(Tail(items))
JsonDumps(v) == IF IsNull(v) THEN Null ELSE S(<<"[">> \o JsonItems(v.s) \o <<"]">>)

\* make_csv_safe: every List column c is replaced by the Utf8 column c_json,
\* appended after the other columns; map_elements leaves a null cell null.
make_csv_safe(df) ==
    IF IsEmptyPl(df) THEN df
    ELSE LET drop_cols == SelectSeq(df.cols, LAMBDA c : df.dt[c] = "List")
             kept == SelectSeq(df.cols, LAMBDA c : df.dt[c] # "List")
             fixes == [i \in 1..Len(drop_cols) |-> JsonName(drop_cols[i])]
             src(k) == CHOOSE c \in SeqSet(drop_cols) : JsonName(c) = k
             ks == SeqSet(kept) \cup SeqSet(fixes)
         IN  Stored([cols |-> kept \o fixes,
              dt   |-> [k \in ks |-> IF k \in SeqSet(kept) THEN df.dt[k] ELSE "Utf8"],
              rows |-> [i \in 1..Height(df) |->
                          [k \in ks |-> IF k \in SeqSet(kept) THEN df.rows[i][k]
                                        ELSE JsonDumps(df.rows[i][src(k)])]]])

\* df.write_csv: the header and, per row, the text of every cell; a null is
\* the empty field.
CsvField(v) == IF IsNull(v) THEN <<>> ELSE IF v.t = "num" THEN IntToStr(v.n) ELSE v.s
ToCsv(df) ==
    [cols |-> df.cols,
     rows |-> Rows([i \in 1..Height(df) |-> [k \in ColSet(df) |-> CsvField(df.rows[i][k])]])]

\* pd.read_csv: the fields pandas reads as NaN (of its default na_values, the
\* ones the model's strings can spell).
NaFields == {<<>>, <<"N", "A">>, <<"N", "o", "n", "e">>, <<"n", "a", "n">>}
\* the column is numeric when every field that is not NaN is an integer
\* (surrounding blanks allowed): int64 without NaN, float64 with; otherwise
\* it is an object column of the fields as written.  [ok, df]; a file without
\* columns raises EmptyDataError.
read_csv(csv) ==
    LET field(i, k) == csv.rows[i][k]
        na(i, k) == field(i, k) \in NaFields
        numeric(k) == \A i \in 1..Len(csv.rows) : na(i, k) \/ IsDigits(Strip(field(i, k)))
        dtype(k) == IF Len(csv.rows) = 0 THEN "object"
                    ELSE IF ~numeric(k) THEN "object"
                    ELSE IF \E i \in 1..Len(csv.rows) : na(i, k) THEN "float64"
                    ELSE "int64"
        cell(i, k) == IF na(i, k) THEN Null
                      ELSE IF numeric(k) THEN N(StrToInt(Strip(field(i, k))))
                      ELSE S(field(i, k))
    IN  IF csv.cols = <<>> THEN [ok |-> FALSE, df |-> EmptyDf]
        ELSE [ok |-> TRUE,
              df |-> Stored([cols |-> csv.cols,
                      dt   |-> [k \in SeqSet(csv.cols) |-> dtype(k)],
                      rows |-> [i \in 1..Len(csv.rows) |->
                                  [k \in SeqSet(csv.cols) |-> cell(i, k)]]])]

\* The raw store: the objects under crash/<alias>/, in listing order, each
\* with the corr its key names, whether its key ends in .json or .json.gz,
\* what its bytes are (content) and the rows written in them.
\* read_json_gz_array: [ok, err, rows].  Bytes that start with the gzip magic
\* go through gzip.decompress, of whose exceptions only OSError (BadGzipFile:
\* a bad header field, a failed CRC or length check) is caught and answered
\* with the bytes as they are; a stream that ends early raises EOFError and a
\* damaged deflate stream zlib.error.  Text that is not JSON, and JSON that is
\* neither an array nor an object with an array under "data", give no rows.
WellFormed == {"array", "data", "gz"}
read_json_gz_array(o) ==
    CASE o.content \in WellFormed -> [ok |-> TRUE, err |-> "", rows |-> o.rows]
      [] o.content = "gz_truncated" -> [ok |-> FALSE, err |-> "EOFError", rows |-> <<>>]
      [] o.content = "gz_corrupt" -> [ok |-> FALSE, err |-> "zlib.error", rows |-> <<>>]
      [] OTHER -> [ok |-> TRUE, err |-> "", rows |-> <<>>]
\* _keys_for_corr
keys_for_corr(store, dataset_alias, corr) ==
    SelectSeq(store, LAMBDA o : o.alias = dataset_alias /\ o.json /\ o.corr = corr)

\* load_dataset: the rows of all the corr's objects in one frame; the empty
\* frame when there is no row.
RECURSIVE ConcatRows(_)
ConcatRows(objs) ==
    IF objs = <<>> THEN <<>>
    ELSE read_json_gz_array(Head(objs)).rows \o ConcatRows(Tail(objs))
load_dataset(store, dataset_alias, corr) ==
    LET keys == keys_for_corr(store, dataset_alias, corr)
        read(i) == read_json_gz_array(keys[i])
        raising == {i \in 1..Len(keys) : ~read(i).ok}
        rows_all == ConcatRows(keys)
        first == CHOOSE i \in 1..Len(keys) :
                    /\ read(i).rows # <<>>
                    /\ \A j \in 1..(i - 1) : read(j).rows = <<>>
    IN  IF raising # {}
        THEN [ok |-> FALSE, df |-> EmptyDf,
              err |-> read(CHOOSE i \in raising : \A j \in raising : i <= j).err]
        ELSE IF rows_all = <<>> THEN [ok |-> TRUE, err |-> "", df |-> EmptyDf]
        ELSE [ok |-> TRUE, err |-> "",
              df |-> [cols |-> keys[first].cols, dt |-> keys[first].dt, rows |-> rows_all]]

(***************************************************************************)
(* Job messages.  A message has the transport header corr_id and a body:   *)
(* a JSON object (kind "obj") with the keys type, corr_id, xform_bucket    *)
(* and clean_bucket, JSON that is not an object (kind "arr"), or bytes     *)
(* that are not JSON (kind "bad").                                         *)
(***************************************************************************)
ABSENT == "<absent>"      \* the key is not in the object / the header table
JNULL == "<null>"         \* the key is there with the value null
PY_NONE == "<None>"       \* Python's None
Msg(hdr, kind, type, corr_id, xform_bucket) ==
    [hdr |-> hdr, kind |-> kind, type |-> type, corr_id |-> corr_id,
     xform_bucket |-> xform_bucket, clean_bucket |-> ABSENT]

\* dict.get(key): None for a key that is absent or null.
Get(msg, key) == IF msg[key] \in {ABSENT, JNULL} THEN PY_NONE ELSE msg[key]
\* dict.get(key, default): the default only for an absent key.
GetOr(msg, key, default) ==
    IF msg[key] = ABSENT THEN default ELSE IF msg[key] = JNULL THEN PY_NONE ELSE msg[key]
\* str(x)
PyStr(x) == IF x = PY_NONE THEN "None" ELSE x
\* not x
Falsy(x) == x \in {PY_NONE, ""}
\* a or b
Or(a, b) == IF Falsy(a) THEN b ELSE a

(***************************************************************************)
(* The object store: a function from the keys written so far to contents.  *)
(* A key is bucket, prefix, the corr folder (dir is "corr=" or "") and the *)
(* file name.                                                              *)
(***************************************************************************)
Key(bucket, prefix, dir, corr, name) ==
    [bucket |-> bucket, prefix |-> prefix, dir |-> dir, corr |-> corr, name |-> name]
\* put_object: the key's content is replaced.
put_object(objs, key, data) ==
    [k \in DOMAIN objs \cup {key} |-> IF k = key THEN data ELSE objs[k]]

PREFIX == "crash"
\* out_key = f"{prefix}/corr={corr}/merged.csv"
out_key(out_bucket, corr) == Key(out_bucket, PREFIX, "corr=", corr, "merged.csv")

\* publish_clean_job: the message to the cleaner, corr_id in header and body.
clean_job(corr_id, xform_bucket) == Msg(corr_id, "obj", "clean", corr_id, xform_bucket)

\* What handling one delivery came to: the resolution (res is "ack", "nack" or
\* "none"), whether the exception left the handler, the exception that left
\* stage processing (raised, with the step it came from), whether stage
\* processing was entered, the exception that was swallowed (soft), the steps
\* that took effect, and the stores and the outgoing messages afterwards.
Result(res, requeue, escaped, raised, at, processed, soft, effects, corr,
       objs, pub, g, led, clk) ==
    [res |-> res, requeue |-> requeue, escaped |-> escaped, raised |-> raised,
     at |-> at, processed |-> processed, soft |-> soft, effects |-> effects,
     corr |-> corr, objects |-> objs, pub |-> pub, gold |-> g, ledger |-> led,
     clock |-> clk]

(***************************************************************************)
(* transformer.py: on_msg and run_transform_job.                           *)
(***************************************************************************)
\* The parts of on_msg inside its try ... except Exception: the parsing of the
\* body, the look at the type, the call of run_transform_job.
ON_MSG_TRY == {"parse", "type", "run_transform_job"}
\* The steps of run_transform_job inside its inner try ... except Exception,
\* which records the error and goes on.
SOFT_TRY_none == {}
SOFT_TRY == {"publish", "publish_close"}
\* basic_nack(delivery_tag, requeue=True)
ON_MSG_REQUEUE_true == TRUE
\* basic_nack(delivery_tag, requeue=False)
ON_MSG_REQUEUE == FALSE
\* mtype not in ("transform", "clean")
RecognizedByTransformer == {"transform", "clean"}

\* The faults the environment can inject into a transform job: the object
\* store failing before the merge (at bucket_exists / make_bucket, at listing
\* or reading the raw objects), at put_object; the broker failing before the
\* clean job is published, or when the publishing channel is closed after it.
TransformerFaults == {"none", "load", "write_csv", "publish", "publish_close"}

\* on_msg, had json.loads been called before its try.
on_msg_raise_parse_outside(st, exc, at, processed, effects, objs, pub) ==
    Result(IF at # "parse" THEN "nack" ELSE "none", FALSE, at = "parse",
           exc, at, processed, "", effects, PY_NONE, objs, pub,
           st.gold, st.ledger, st.clock)
\* An exception raised at a step of on_msg: caught by its except when the
\* part of on_msg the step belongs to is inside the try.
on_msg_raise(st, exc, at, processed, effects, objs, pub) ==
    LET part == IF at \in {"parse", "type"} THEN at ELSE "run_transform_job"
        caught == part \in ON_MSG_TRY
    IN  Result(IF caught THEN "nack" ELSE "none", caught /\ ON_MSG_REQUEUE, ~caught,
               exc, at, processed, "", effects, PY_NONE, objs, pub,
               st.gold, st.ledger, st.clock)

\* run_transform_job, last step first: publish_clean_job after the write,
transform_publish(st, fault, corr, out_bucket, written) ==
    LET sent == fault # "publish"
        failed == fault \in {"publish", "publish_close"}
        pub == IF sent THEN <<clean_job(corr, out_bucket)>> ELSE <<>>
        effects == <<"load", "merge", "write_csv">> \o (IF sent THEN <<"publish">> ELSE <<>>)
    IN  IF failed /\ fault \notin SOFT_TRY
        THEN on_msg_raise(st, "AMQPError", fault, TRUE, effects, written, pub)
        ELSE Result("ack", FALSE, FALSE, "", "", TRUE,
                    IF failed THEN "AMQPError" ELSE "", effects, corr,
                    written, pub, st.gold, st.ledger, st.clock)
\* run_transform_job, had it called publish_clean_job before write_csv.
transform_write_publish_first(st, fault, corr, out_bucket, merged) ==
    IF ~merged.ok
    THEN on_msg_raise(st, "ColumnNotFoundError", "merge", TRUE, <<>>, st.objects, <<>>)
    ELSE IF fault = "write_csv"
    THEN on_msg_raise(st, "S3Error", "write_csv", TRUE, <<"publish">>, st.objects,
                      <<clean_job(corr, out_bucket)>>)
    ELSE transform_publish(st, fault, corr, out_bucket,
             put_object(st.objects, out_key(out_bucket, corr),
                        ToCsv(make_csv_safe(merged.df))))
\* write_csv of the merged frame made CSV-safe,
transform_write(st, fault, corr, out_bucket, merged) ==
    IF ~merged.ok
    THEN on_msg_raise(st, "ColumnNotFoundError", "merge", TRUE, <<>>, st.objects, <<>>)
    ELSE IF fault = "write_csv"
    THEN on_msg_raise(st, "S3Error", "write_csv", TRUE, <<>>, st.objects, <<>>)
    ELSE transform_publish(st, fault, corr, out_bucket,
             put_object(st.objects, out_key(out_bucket, corr),
                        ToCsv(make_csv_safe(merged.df))))
\* the merge of the datasets loaded, when none of the loads raised,
transform_merge(st, fault, corr, out_bucket, crashes_df, vehicles_df, people_df) ==
    IF ~crashes_df.ok
    THEN on_msg_raise(st, crashes_df.err, "load", TRUE, <<>>, st.objects, <<>>)
    ELSE IF ~vehicles_df.ok
    THEN on_msg_raise(st, vehicles_df.err, "load", TRUE, <<>>, st.objects, <<>>)
    ELSE IF ~people_df.ok
    THEN on_msg_raise(st, people_df.err, "load", TRUE, <<>>, st.objects, <<>>)
    ELSE transform_write(st, fault, corr, out_bucket,
             merge_crash_vehicles_people(crashes_df.df, vehicles_df.df, people_df.df,
                                         "crash_record_id", st.strict))
\* the check of the job, the bucket and the load of the datasets.
run_transform_job(st, fault, corr, out_bucket) ==
    IF Falsy(corr) \/ Falsy(out_bucket)
    THEN on_msg_raise(st, "ValueError", "validate", TRUE, <<>>, st.objects, <<>>)
    ELSE IF fault = "load"
    THEN on_msg_raise(st, "S3Error", fault, TRUE, <<>>, st.objects, <<>>)
    ELSE transform_merge(st, fault, corr, out_bucket,
                         load_dataset(st.raw, "crashes", corr),
                         load_dataset(st.raw, "vehicles", corr),
                         load_dataset(st.raw, "people", corr))

\* on_msg(chx, method, props, body) for a delivery of msg, with st the stores
\* and the configuration it runs against.
on_msg(msg, st, fault) ==
    IF msg.kind = "bad"
    THEN on_msg_raise(st, "JSONDecodeError", "parse", FALSE, <<>>, st.objects, <<>>)
    ELSE IF msg.kind # "obj"
    THEN on_msg_raise(st, "AttributeError", "type", FALSE, <<>>, st.objects, <<>>)
    ELSE IF GetOr(msg, "type", "") \notin RecognizedByTransformer
    THEN Result("ack", FALSE, FALSE, "", "", FALSE, "", <<>>, PY_NONE,
                st.objects, <<>>, st.gold, st.ledger, st.clock)
    ELSE run_transform_job(st, fault, Get(msg, "corr_id"),
             Or(Or(Get(msg, "xform_bucket"), Get(msg, "clean_bucket")),
                st.env.XFORM_BUCKET))

(***************************************************************************)
(* cleaner.py and minio_io.py: handle.                                     *)
(***************************************************************************)
SILVER_NAME == "merged.csv"

\* get_corr_id_from_message: the header if there is one, else the body's
\* corr_id, both through str(); None when the body is not a JSON object.
get_corr_id_from_message(msg) ==
    IF msg.hdr # ABSENT THEN PyStr(IF msg.hdr = JNULL THEN PY_NONE ELSE msg.hdr)
    ELSE IF msg.kind = "obj" THEN PyStr(Get(msg, "corr_id"))
    ELSE PY_NONE

\* _prefixes_for_corr: <prefix>/<corr_id>/ and <prefix>/corr=<corr_id>/
prefixes_for_corr(cfg, corr_id) ==
    <<Key(cfg.MINIO_BUCKET, cfg.SILVER_PREFIX, "", corr_id, ""),
      Key(cfg.MINIO_BUCKET, cfg.SILVER_PREFIX, "corr=", corr_id, "")>>

\* download_csv_for_corr: [found, key]: the first candidate folder that holds
\* the file of the configured name, else the first folder that holds a .csv.
download_csv_for_corr(objs, cfg, corr_id) ==
    LET candidates == prefixes_for_corr(cfg, corr_id)
        exact == SelectSeq(candidates,
                     LAMBDA p : [p EXCEPT !.name = SILVER_NAME] \in DOMAIN objs)
        under(p) == {k \in DOMAIN objs : [k EXCEPT !.name = ""] = p}
        any == SelectSeq(candidates, LAMBDA p : under(p) # {})
    IN  IF exact # <<>> THEN [found |-> TRUE, key |-> [exact[1] EXCEPT !.name = SILVER_NAME]]
        ELSE IF any # <<>> THEN [found |-> TRUE, key |-> CHOOSE k \in under(any[1]) : TRUE]
        ELSE [found |-> FALSE, key |-> candidates[1]]

\* The steps of handle inside its try ... except Exception.
HANDLE_TRY == {"download", "read_csv", "apply_cleaning", "upsert", "record_run"}
\* basic_nack(delivery_tag, requeue=False), for a message without corr_id and
\* in the except clause.
REJECT_REQUEUE == FALSE
HANDLE_REQUEUE == FALSE

\* The faults the environment can inject into a clean job: the object store
\* failing at the download, the DuckDB file failing at the upsert or at the
\* ledger write.
CleanerFaults == {"none", "download", "upsert", "record_run"}

\* handle's except clause, had it nacked with requeue=True.
handle_raise_requeue(st, corr_id, exc, at, effects, g) ==
    Result("nack", TRUE, FALSE, exc, at, TRUE, "", effects, corr_id, st.objects,
           <<>>, g, st.ledger, st.clock)
\* An exception raised at a step of handle: caught by its except when the
\* step is inside the try; g is the GoldTable as the step left it.
handle_raise(st, corr_id, exc, at, effects, g) ==
    LET caught == at \in HANDLE_TRY
    IN  Result(IF caught THEN "nack" ELSE "none", caught /\ HANDLE_REQUEUE, ~caught,
               exc, at, TRUE, "", effects, corr_id, st.objects, <<>>, g,
               st.ledger, st.clock)

\* handle writing the ledger row before it looks at the upsert's outcome.
handle_record_first(st, fault, corr_id, cl, up) ==
    Result(IF up.ok THEN "ack" ELSE "nack", FALSE, FALSE, IF up.ok THEN "" ELSE up.err,
           IF up.ok THEN "" ELSE "upsert", TRUE, "",
           IF up.ok THEN <<"download", "read_csv", "apply_cleaning", "upsert", "record_run">>
           ELSE <<"download", "read_csv", "apply_cleaning">>,
           corr_id, st.objects, <<>>, up.tbl,
           record_run(st.ledger, corr_id, "crashes", Height(cl.df), st.clock + 1),
           st.clock + 1)
\* handle, last step first: record_run and the ack after the upsert,
handle_record(st, fault, corr_id, cl, up) ==
    IF ~up.ok
    THEN handle_raise(st, corr_id, up.err, "upsert",
                      <<"download", "read_csv", "apply_cleaning">>, up.tbl)
    ELSE IF fault = "record_run"
    THEN handle_raise(st, corr_id, "IOException", "record_run",
                      <<"download", "read_csv", "apply_cleaning", "upsert">>, up.tbl)
    ELSE Result("ack", FALSE, FALSE, "", "", TRUE, "",
                <<"download", "read_csv", "apply_cleaning", "upsert", "record_run">>,
                corr_id, st.objects, <<>>, up.tbl,
                record_run(st.ledger, corr_id, "crashes", Height(cl.df), st.clock + 1),
                st.clock + 1)
\* the upsert of the cleaned table,
handle_upsert(st, fault, corr_id, cl) ==
    IF ~cl.ok
    THEN handle_raise(st, corr_id, cl.err, "apply_cleaning",
                      <<"download", "read_csv">>, st.gold)
    ELSE IF fault = "upsert"
    THEN handle_raise(st, corr_id, "IOException", "upsert",
                      <<"download", "read_csv", "apply_cleaning">>, st.gold)
    ELSE handle_record(st, fault, corr_id, cl, upsert(st.gold, cl.df, PK_COL, st.skips))
\* apply_cleaning of the table read,
handle_clean(st, fault, corr_id, rd) ==
    IF ~rd.ok
    THEN handle_raise(st, corr_id, "EmptyDataError", "read_csv", <<"download">>, st.gold)
    ELSE handle_upsert(st, fault, corr_id, apply_cleaning(rd.df))
\* pd.read_csv of the artifact downloaded,
handle_read(st, fault, corr_id, csv) ==
    IF ~csv.found
    THEN handle_raise(st, corr_id, "FileNotFoundError", "download", <<>>, st.gold)
    ELSE handle_clean(st, fault, corr_id, read_csv(st.objects[csv.key]))
\* the download for the corr_id of the message.
handle_download(st, fault, corr_id) ==
    IF Falsy(corr_id)
    THEN Result("nack", REJECT_REQUEUE, FALSE, "", "", FALSE, "", <<>>, corr_id,
                st.objects, <<>>, st.gold, st.ledger, st.clock)
    ELSE IF fault = "download"
    THEN handle_raise(st, corr_id, "S3Error", "download", <<>>, st.gold)
    ELSE handle_read(st, fault, corr_id,
                     download_csv_for_corr(st.objects, st.env, corr_id))

\* handle(ch, method, properties, body) for a delivery of msg.
handle(msg, st, fault) == handle_download(st, fault, get_corr_id_from_message(msg))

(***************************************************************************)
(* The workers and their channels.                                         *)
(***************************************************************************)
Workers == {"xf1", "cl1", "cl2"}
Stage(w) == IF w = "xf1" THEN "transformer" ELSE "cleaner"
\* TRANSFORM_QUEUE and CLEAN_QUEUE
QueueOf(w) == IF Stage(w) = "transformer" THEN "transform" ELSE "clean"
WorkersOn(q) == {w \in Workers : QueueOf(w) = q}

\* conn.channel(): no prefetch limit (0), nothing delivered, not consuming.
channel == [pc |-> "connected", prefetch |-> 0, unacked |-> <<>>]
\* A channel whose basic_qos was never called.
basic_qos_ignored(ch, prefetch_count) == ch
\* ch.basic_qos(prefetch_count=n)
basic_qos(ch, prefetch_count) == [ch EXCEPT !.prefetch = prefetch_count]
\* ch.basic_consume(queue, callback) and ch.start_consuming()
basic_consume(ch) == [ch EXCEPT !.pc = "consuming"]

NotJson(hdr, kind) == Msg(hdr, kind, ABSENT, ABSENT, ABSENT)

NoJob ==
    [w |-> "", stage |-> "", msg |-> NotJson(ABSENT, "bad"), fault |-> "none",
     res |-> "none", requeue |-> FALSE, escaped |-> FALSE, raised |-> "", at |-> "",
     processed |-> FALSE, soft |-> "", effects |-> <<>>, corr |-> PY_NONE]
NoRun == [corr |-> PY_NONE, input |-> <<>>, n |-> 0]

\* No call of the merge under way.
NoMerge == [crashes |-> EmptyDf, vehicles |-> EmptyDf, people |-> EmptyDf]
NotMerged == [ok |-> FALSE, df |-> EmptyDf]
MergeIdle == mergeIn = NoMerge /\ mergeOut = NotMerged /\ mergePc = "idle"
\* No call of load_dataset under way.
NotLoaded == [ok |-> FALSE, err |-> "", df |-> EmptyDf]
LoadIdle == loadIn = <<>> /\ loadOut = NotLoaded /\ loadPc = "idle"

InitPipe ==
    /\ queue = [q \in {"transform", "clean"} |-> EmptyBag]
    /\ chan = [w \in Workers |-> channel]
    /\ objects = <<>>
    /\ last = NoJob
    /\ repeat = [s \in {"transformer", "cleaner"} |-> NoRun]
    /\ published = 0
    /\ broker = "up" /\ flips = 0 /\ attempt = [w \in Workers |-> 0]
PipeIdle == InitPipe /\ raw = "" /\ env = [XFORM_BUCKET |-> PY_NONE,
                MINIO_BUCKET |-> "", SILVER_PREFIX |-> ""] /\ strictUnique = FALSE
            /\ MergeIdle /\ LoadIdle

vars == <<cleanIn, cleanOut, cleanPc, skipInner, gold, ledger, clock, storeLog,
          queue, chan, objects, raw, env, strictUnique, last, repeat, published,
          broker, flips, attempt, mergeIn, mergeOut, mergePc, loadIn, loadOut, loadPc>>
bootVars == <<broker, flips, attempt>>
mergeVars == <<mergeIn, mergeOut, mergePc>>
loadVars == <<loadIn, loadOut, loadPc>>
pipeVars == <<queue, chan, objects, raw, env, strictUnique, last, repeat, published,
              bootVars, mergeVars, loadVars>>
cleanVars == <<cleanIn, cleanOut, cleanPc>>
storeVars == <<skipInner, gold, ledger, clock, storeLog>>

(***************************************************************************)
(* SpecClean: apply_cleaning on the tables pd.read_csv can hand it.        *)
(***************************************************************************)
MaxRows == 2

Str_X == <<"X">>
Str_Y == <<"Y">>
PkVals ==
    {Null, S(<<>>), S(<<" ">>), S(Str_X), S(<<" ", "X">>), S(<<"x">>), S(Str_Y),
     S(<<"y", "e", "s">>)}
TextVals == {Null, S(Str_Y), S(<<" ", "N", "O">>), S(<<"x">>)}
NumTextVals == {Null, S(<<"1", "0">>), S(<<"2", "5">>), S(<<"x">>)}
NumVals == {Null, N(10), N(25)}
DateVals ==
    {Null, S(<<"x">>),
     S(<<"2", "0", "2", "0", "-", "0", "1", "-", "0", "2">>),
     S(<<"2", "0", "2", "1", "-", "0", "3", "-", "0", "4">>)}

\* The column layouts of the input tables.
Layout(cols, dts) ==
    [cols |-> cols, dt |-> [k \in SeqSet(cols) |->
        dts[CHOOSE i \in 1..Len(cols) : cols[i] = k]]]
InputLayouts ==
    {Layout(<<"crash_record_id">>, <<"object">>),
     Layout(<<"record_id">>, <<"object">>),
     Layout(<<"id", "crash_id">>, <<"object", "object">>),
     Layout(<<"crash_id", "record_id">>, <<"object", "object">>),
     Layout(<<"street_direction">>, <<"object">>),
     Layout(<<"crash_record_id", "street_direction">>, <<"object", "object">>),
     Layout(<<"crash_record_id", "hit_and_run_i">>, <<"object", "object">>),
     Layout(<<"crash_record_id", "posted_speed_limit">>, <<"object", "object">>),
     Layout(<<"crash_record_id", "posted_speed_limit">>, <<"object", "float64">>),
     Layout(<<"crash_record_id", "crash_date">>, <<"object", "object">>)}

\* The cells a column of the input can hold.
CellDomain(c, d) ==
    CASE d = "float64" -> NumVals
      [] c \in {"crash_record_id", "record_id", "id"} -> PkVals
      [] c = "crash_id" -> {Null, S(Str_X)}
      [] c = "posted_speed_limit" -> NumTextVals
      [] c = "crash_date" -> DateVals
      [] OTHER -> TextVals
RowsOf(lay) == {r \in [SeqSet(lay.cols) -> PkVals \cup TextVals \cup NumTextVals
                                            \cup NumVals \cup DateVals] :
                  \A c \in SeqSet(lay.cols) : r[c] \in CellDomain(c, lay.dt[c])}

NoResult == [ok |-> FALSE, err |-> "not run", df |-> EmptyDf]
StoreIdle ==
    /\ skipInner = FALSE
    /\ gold = NoTable /\ ledger = init_meta /\ clock = 0 /\ storeLog = <<>>

InitClean ==
    /\ \E lay \in InputLayouts : cleanIn = [cols |-> lay.cols, dt |-> lay.dt, rows |-> <<>>]
    /\ cleanOut = NoResult
    /\ cleanPc = "build"
    /\ StoreIdle
    /\ PipeIdle

\* One more row of the input table.
AddRow ==
    /\ cleanPc = "build"
    /\ Height(cleanIn) < MaxRows
    /\ \E r \in RowsOf(cleanIn) : cleanIn' = [cleanIn EXCEPT !.rows = Append(@, r)]
    /\ UNCHANGED <<cleanOut, cleanPc, storeVars, pipeVars>>

\* clean_df = apply_cleaning(df)
Clean ==
    /\ cleanPc = "build"
    /\ cleanOut' = apply_cleaning(cleanIn)
    /\ cleanPc' = "done"
    /\ UNCHANGED <<cleanIn, storeVars, pipeVars>>

NextClean == AddRow \/ Clean
SpecClean == InitClean /\ [][NextClean]_vars

(***************************************************************************)
(* SpecStore: calls of DuckDBWriter.upsert("crashes", batch) and           *)
(* record_run on one store, the batches being results of apply_cleaning.   *)
(***************************************************************************)
MaxCalls == 4
CorrIds == {"c1", "None"}

Frame(cols, dts, rows) == [cols |-> cols, dt |-> Layout(cols, dts).dt, rows |-> rows]
Str_A == <<"A">>
Str_sX == <<" ", "X">>
Date1 == <<"2", "0", "2", "0", "-", "0", "1", "-", "0", "2">>
\* Tables as read from a merged artifact.
StoreInputs ==
    {Frame(<<"crash_record_id", "posted_speed_limit">>, <<"object", "float64">>, <<>>),
     Frame(<<"crash_record_id">>, <<"object">>,
           <<[crash_record_id |-> S(Str_X)], [crash_record_id |-> S(Str_sX)]>>),
     Frame(<<"crash_record_id", "street_direction">>, <<"object", "object">>,
           <<[crash_record_id |-> S(Str_X), street_direction |-> S(<<"W">>)],
             [crash_record_id |-> S(Str_A), street_direction |-> Null]>>),
     Frame(<<"crash_record_id", "street_direction">>, <<"object", "object">>,
           <<[crash_record_id |-> S(Str_X), street_direction |-> S(<<"N">>)]>>),
     Frame(<<"crash_record_id", "posted_speed_limit">>, <<"object", "float64">>,
           <<[crash_record_id |-> S(Str_X), posted_speed_limit |-> N(10)],
             [crash_record_id |-> S(Str_sX), posted_speed_limit |-> N(25)]>>),
     Frame(<<"crash_record_id", "crash_date">>, <<"object", "object">>,
           <<[crash_record_id |-> S(Str_A), crash_date |-> S(Date1)]>>)}
StoreBatches == {apply_cleaning(d).df : d \in StoreInputs}

Call(op, batch, corr_id, rows, ok, ret, after) ==
    [op |-> op, batch |-> batch, corr_id |-> corr_id, rows |-> rows,
     ok |-> ok, ret |-> ret, gold |-> after]

InitStore ==
    /\ skipInner \in BOOLEAN
    /\ gold = NoTable
    /\ ledger = init_meta
    /\ clock = 0
    /\ storeLog = <<>>
    /\ cleanIn = EmptyDf /\ cleanOut = NoResult /\ cleanPc = "idle"
    /\ PipeIdle

\* writer.upsert("crashes", batch, pk="crash_record_id")
Upsert ==
    /\ Len(storeLog) < MaxCalls
    /\ \E b \in StoreBatches :
         LET r == upsert(gold, b, PK_COL, skipInner)
         IN  /\ gold' = r.tbl
             /\ storeLog' = Append(storeLog, Call("upsert", b, "", 0, r.ok, r.ret, r.tbl))
    /\ UNCHANGED <<skipInner, ledger, clock, cleanVars, pipeVars>>

\* writer.record_run(corr_id, "crashes", rows)
RecordRun ==
    /\ Len(storeLog) < MaxCalls
    /\ \E c \in CorrIds, n \in {Height(b) : b \in StoreBatches} :
         /\ ledger' = record_run(ledger, c, "crashes", n, clock + 1)
         /\ storeLog' = Append(storeLog, Call("record_run", EmptyDf, c, n, TRUE, 0, gold))
    /\ clock' = clock + 1
    /\ UNCHANGED <<skipInner, gold, cleanVars, pipeVars>>

NextStore == Upsert \/ RecordRun
SpecStore == InitStore /\ [][NextStore]_vars

(***************************************************************************)
(* SpecLegacy: the same calls on a store whose table "crashes" was there   *)
(* before, created without the PRIMARY KEY constraint.                     *)
(***************************************************************************)
LegacyRow(id, dir) == [crash_record_id |-> id, street_direction |-> dir]
LegacyTable(rows) ==
    [exists |-> TRUE, pk |-> FALSE, cols |-> <<"crash_record_id", "street_direction">>,
     types |-> [crash_record_id |-> "VARCHAR", street_direction |-> "VARCHAR"],
     rows |-> rows]
\* Keys that allow the constraint, a key stored twice, a null key.
LegacyTables ==
    {LegacyTable(<<LegacyRow(S(Str_A), S(<<"e">>))>>),
     LegacyTable(<<LegacyRow(S(Str_X), S(<<"e">>)), LegacyRow(S(Str_X), S(<<"s">>))>>),
     LegacyTable(<<LegacyRow(Null, S(<<"e">>))>>)}

InitLegacy ==
    /\ skipInner \in BOOLEAN
    /\ gold \in LegacyTables
    /\ ledger = init_meta
    /\ clock = 0
    /\ storeLog = <<>>
    /\ cleanIn = EmptyDf /\ cleanOut = NoResult /\ cleanPc = "idle"
    /\ PipeIdle
SpecLegacy == InitLegacy /\ [][NextStore]_vars

(***************************************************************************)
(* Spec: the transformer and the cleaners consuming their queues.          *)
(***************************************************************************)
MaxMsgs == 2       \* the messages the producers outside the workers publish

\* The raw datasets the extractor left in the raw bucket.
ObjAs(content, alias, corr, json, cols, dts, rows) ==
    [alias |-> alias, corr |-> corr, json |-> json, content |-> content, cols |-> cols,
     dt |-> Layout(cols, dts).dt, rows |-> rows]
Obj(alias, corr, json, cols, dts, rows) == ObjAs("array", alias, corr, json, cols, dts, rows)
CrashCols == <<"CRASH_RECORD_ID", "street_direction", "posted_speed_limit">>
CrashRow(id, dir, speed) ==
    [CRASH_RECORD_ID |-> id, street_direction |-> dir, posted_speed_limit |-> speed]
Utf8x3 == <<"Utf8", "Utf8", "Utf8">>
Str_30 == <<"3", "0">>
Str_25 == <<"2", "5">>
Str_FORD == <<"F", "O", "R", "D">>
Str_BMW == <<"B", "M", "W">>
RawA ==
    <<Obj("crashes", "c1", TRUE, CrashCols, Utf8x3,
          <<CrashRow(S(Str_X), S(<<"W">>), S(Str_30)), CrashRow(S(Str_A), Null, S(Str_25))>>),
      Obj("crashes", "c1", TRUE, CrashCols, Utf8x3,
          <<CrashRow(S(Str_X), S(<<"W">>), S(Str_30))>>),
      Obj("crashes", "c1", FALSE, CrashCols, Utf8x3,
          <<CrashRow(S(<<"B">>), Null, Null)>>),
      Obj("vehicles", "c1", TRUE, <<"crash_record_id", "MAKE">>, <<"Utf8", "Utf8">>,
          <<[crash_record_id |-> S(Str_X), MAKE |-> S(Str_FORD)],
            [crash_record_id |-> S(Str_X), MAKE |-> S(Str_BMW)],
            [crash_record_id |-> S(<<"Z">>), MAKE |-> Null]>>),
      Obj("people", "c1", TRUE, <<>>, <<>>, <<>>),
      Obj("crashes", "None", TRUE, CrashCols, Utf8x3,
          <<CrashRow(S(<<"B">>), S(<<"E">>), S(Str_25))>>)>>
RawB ==
    <<Obj("crashes", "c1", TRUE, <<"crash_record_id", "street_direction">>,
          <<"Utf8", "Utf8">>,
          <<[crash_record_id |-> S(Str_X), street_direction |-> S(<<"W">>)],
            [crash_record_id |-> S(Str_sX), street_direction |-> S(<<"E">>)]>>)>>

\* The raw bucket's content by name.
RawBucket(name) == IF name = "A" THEN RawA ELSE RawB

\* The workers' configuration: XFORM_BUCKET of the transformer (None when
\* unset), MINIO_BUCKET and SILVER_PREFIX (default "") of the cleaner.
EnvSet == [XFORM_BUCKET |-> "xform", MINIO_BUCKET |-> "xform", SILVER_PREFIX |-> PREFIX]
EnvDefault == [XFORM_BUCKET |-> PY_NONE, MINIO_BUCKET |-> "xform", SILVER_PREFIX |-> ""]
\* The deployments: raw bucket, environment, polars build.
Deployments ==
    {[raw |-> "A", env |-> EnvSet, strict |-> FALSE],
     [raw |-> "A", env |-> EnvDefault, strict |-> TRUE],
     [raw |-> "B", env |-> EnvSet, strict |-> FALSE],
     [raw |-> "B", env |-> EnvSet, strict |-> TRUE]}

\* The messages producers publish to the two queues.
TransformJobs ==
    {Msg(ABSENT, "obj", "transform", "c1", "xform"),
     Msg(ABSENT, "obj", "transform", "None", "xform"),
     Msg(ABSENT, "obj", "transform", "c1", ABSENT),
     Msg(ABSENT, "obj", "transform", ABSENT, "xform"),
     Msg(ABSENT, "obj", "bogus", "c1", "xform"),
     NotJson(ABSENT, "bad"), NotJson(ABSENT, "arr")}
CleanJobs ==
    {clean_job("c1", "xform"),
     Msg(ABSENT, "obj", "clean", ABSENT, "xform"),
     Msg(ABSENT, "obj", "clean", "", "xform"),
     Msg(ABSENT, "obj", "bogus", "c1", "xform"),
     NotJson("c1", "bad"), NotJson(ABSENT, "bad")}
Jobs(q) == IF q = "transform" THEN TransformJobs ELSE CleanJobs

Init ==
    /\ InitPipe
    /\ \E d \in Deployments : raw = d.raw /\ env = d.env /\ strictUnique = d.strict
    /\ skipInner = FALSE
    /\ gold = NoTable /\ ledger = init_meta /\ clock = 0 /\ storeLog = <<>>
    /\ cleanIn = EmptyDf /\ cleanOut = NoResult /\ cleanPc = "idle"
    /\ MergeIdle /\ LoadIdle

\* A producer (the extractor, an operator resubmitting a job) publishes a
\* message; the same message may be published again.  Delivery being in any
\* order, the messages are all published before the first is handled.
Publish(q) ==
    /\ published < MaxMsgs
    /\ last = NoJob
    /\ \E m \in Jobs(q) : queue' = [queue EXCEPT ![q] = @ (+) SetToBag({m})]
    /\ published' = published + 1
    /\ UNCHANGED <<chan, objects, last, repeat, raw, env, strictUnique, storeVars,
                   cleanVars, bootVars, mergeVars, loadVars>>

\* The worker's start, once connected: basic_qos(prefetch_count=1), then
\* basic_consume and start_consuming.
Start(w) ==
    /\ chan[w].pc = "connected"
    /\ chan' = [chan EXCEPT ![w] = basic_consume(basic_qos(chan[w], 1))]
    /\ UNCHANGED <<queue, objects, last, repeat, published, raw, env, strictUnique,
                   storeVars, cleanVars, bootVars, mergeVars, loadVars>>

\* The broker delivers a message of the worker's queue to it, in any order,
\* while the worker's unacknowledged deliveries are below its prefetch limit
\* (no limit when 0).  A worker's start commutes with the steps of the other
\* workers, so the deliveries begin once every worker has started; and the
\* cleaners being two processes of one program, a delivery to cl2 while cl1
\* holds none is the same step with the names exchanged, so cl2 is given a
\* message only while cl1 holds one.
Deliver(w) ==
    /\ chan[w].pc = "consuming"
    /\ \A v \in Workers : chan[v].pc # "connected"
    /\ w = "cl2" => chan["cl1"].unacked # <<>>
    /\ chan[w].prefetch = 0 \/ Len(chan[w].unacked) < chan[w].prefetch
    /\ \E m \in BagToSet(queue[QueueOf(w)]) :
         /\ queue' = [queue EXCEPT ![QueueOf(w)] = @ (-) SetToBag({m})]
         /\ chan' = [chan EXCEPT ![w].unacked = Append(@, m)]
    /\ UNCHANGED <<objects, last, repeat, published, raw, env, strictUnique, storeVars,
                   cleanVars, bootVars, mergeVars, loadVars>>

\* The stores and the configuration a callback runs against.
Stores ==
    [objects |-> objects, raw |-> RawBucket(raw), env |-> env, strict |-> strictUnique,
     skips |-> skipInner, gold |-> gold, ledger |-> ledger, clock |-> clock]

\* What the fault-free run of a job read: the message for the transformer, the
\* artifact for the cleaner.
InputOf(w, msg, r) ==
    IF Stage(w) = "transformer" THEN <<msg>>
    ELSE IF "download" \in SeqSet(r.effects)
    THEN <<objects[download_csv_for_corr(objects, env, r.corr).key]>>
    ELSE <<>>

\* The injected fault was met: the call it sits in was reached and failed.
Bites(fault, r) == fault # "none" /\ (r.at = fault \/ r.soft # "")

\* The worker's callback has run for its oldest delivery, with the outcome r.
Settle(w, msg, fault, r, input) ==
    /\ objects' = r.objects
    /\ gold' = r.gold
    /\ ledger' = r.ledger
    /\ clock' = r.clock
    /\ queue' = [q \in {"transform", "clean"} |->
                   (IF q = QueueOf(w) /\ r.res = "nack" /\ r.requeue
                    THEN queue[q] (+) SetToBag({msg}) ELSE queue[q])
                   (+) (IF q = "clean" /\ r.pub # <<>> THEN SetToBag({r.pub[1]})
                        ELSE EmptyBag)]
    /\ chan' = [chan EXCEPT ![w] =
                   IF r.escaped THEN [@ EXCEPT !.pc = "crashed"]
                   ELSE [@ EXCEPT !.unacked = Tail(@)]]
    /\ last' = [w |-> w, stage |-> Stage(w), msg |-> msg,
                fault |-> IF Bites(fault, r) THEN fault ELSE "none",
                res |-> r.res, requeue |-> r.requeue, escaped |-> r.escaped,
                raised |-> r.raised, at |-> r.at, processed |-> r.processed,
                soft |-> r.soft, effects |-> r.effects, corr |-> r.corr]
    /\ repeat' = [repeat EXCEPT ![Stage(w)] =
                     IF ~r.processed THEN @
                     ELSE IF Bites(fault, r) THEN NoRun
                     ELSE [corr |-> r.corr, input |-> input,
                           n |-> IF @.n > 0 /\ @.corr = r.corr /\ @.input = input
                                 THEN 2 ELSE 1]]
    /\ UNCHANGED <<published, raw, env, strictUnique, skipInner, storeLog, cleanVars,
                   bootVars, mergeVars, loadVars>>

\* The outcome of the callback of worker w for msg.
Callback(w, msg, fault) ==
    IF Stage(w) = "transformer" THEN on_msg(msg, Stores, fault)
    ELSE handle(msg, Stores, fault)

\* The callback of worker w has come to r for msg.
Resolve(w, msg, fault, r) == Settle(w, msg, fault, r, InputOf(w, msg, r))

\* Whether the run of a job that comes to r0 when nothing fails makes the
\* call the fault sits in.
Reaches(w, fault, r0) ==
    CASE fault = "none" -> TRUE
      [] fault = "load" -> r0.processed /\ r0.at # "validate"
      [] fault \in {"write_csv", "publish", "publish_close"} ->
             r0.processed /\ r0.raised = ""
      [] fault = "download" -> r0.processed
      [] fault = "upsert" -> "apply_cleaning" \in SeqSet(r0.effects)
      [] fault = "record_run" -> "upsert" \in SeqSet(r0.effects)

\* The callback of worker w runs for msg, with any of the faults it can meet.
Run(w, msg, r0) ==
    \E fault \in IF Stage(w) = "transformer" THEN TransformerFaults ELSE CleanerFaults :
        /\ Reaches(w, fault, r0)
        /\ Resolve(w, msg, fault, IF fault = "none" THEN r0 ELSE Callback(w, msg, fault))

\* The consume loop calls the worker's callback for its oldest delivery; the
\* callback runs to its end: the stores change, the clean job goes out, the
\* delivery is acked or nacked (a nack with requeue puts it back on the
\* queue), or the exception leaves the callback and ends the process.
Handle(w) ==
    /\ chan[w].pc = "consuming"
    /\ chan[w].unacked # <<>>
    /\ Run(w, Head(chan[w].unacked), Callback(w, Head(chan[w].unacked), "none"))

Next ==
    \/ \E q \in {"transform", "clean"} : Publish(q)
    \/ \E w \in Workers : Start(w)
    \/ \E w \in Workers : Deliver(w)
    \/ \E w \in Workers : Handle(w)
Spec == Init /\ [][Next]_vars

(***************************************************************************)
(* SpecMerge: merge_crash_vehicles_people on the datasets load_dataset can *)
(* hand it: the frame without columns when the corr_id has no rows, or a   *)
(* frame of the rows' keys, every column Utf8.                             *)
(***************************************************************************)
MaxMergeRows == 2

\* The sequences of 1 to n elements of a set.
SeqsUpTo(set, n) == UNION {[1..k -> set] : k \in 1..n}
PlFrame(cols, rows) == [cols |-> cols, dt |-> [k \in SeqSet(cols) |-> "Utf8"], rows |-> rows]
PlFrames(cols, rowSet) == {PlFrame(cols, rows) : rows \in SeqsUpTo(rowSet, MaxMergeRows)}

\* The crashes: with the id column, without one, and without one under
\* column names that differ in case only.
MergeCrashes ==
    {EmptyDf}
    \cup PlFrames(<<"CRASH_RECORD_ID", "street_direction">>,
                  {[CRASH_RECORD_ID |-> S(Str_X), street_direction |-> S(<<"W">>)],
                   [CRASH_RECORD_ID |-> S(Str_X), street_direction |-> S(<<"N">>)],
                   [CRASH_RECORD_ID |-> S(Str_A), street_direction |-> Null]})
    \cup PlFrames(<<" street_direction", "posted_speed_limit">>,
                  {[k \in {" street_direction", "posted_speed_limit"} |->
                       IF k = "posted_speed_limit" THEN S(Str_30) ELSE S(<<"W">>)],
                   [k \in {" street_direction", "posted_speed_limit"} |->
                       IF k = "posted_speed_limit" THEN S(Str_25) ELSE Null]})
    \cup PlFrames(<<"MAKE", "make">>, {[MAKE |-> S(Str_FORD), make |-> S(Str_BMW)]})
MergeVehicles ==
    {EmptyDf}
    \cup PlFrames(<<"crash_record_id", "MAKE">>,
                  {[crash_record_id |-> S(Str_X), MAKE |-> S(Str_FORD)],
                   [crash_record_id |-> S(Str_X), MAKE |-> S(Str_BMW)],
                   [crash_record_id |-> S(Str_X), MAKE |-> Null]})
MergePeople ==
    {EmptyDf}
    \cup PlFrames(<<"Crash_Record_Id", "person_type">>,
                  {[Crash_Record_Id |-> S(Str_X), person_type |-> S(<<"D">>)]})

InitMerge ==
    /\ mergeIn \in [crashes : MergeCrashes, vehicles : MergeVehicles, people : MergePeople]
    /\ mergeOut = NotMerged
    /\ mergePc = "ready"
    /\ strictUnique \in BOOLEAN
    /\ InitPipe /\ raw = "" /\ env = EnvDefault
    /\ LoadIdle
    /\ skipInner = FALSE
    /\ gold = NoTable /\ ledger = init_meta /\ clock = 0 /\ storeLog = <<>>
    /\ cleanIn = EmptyDf /\ cleanOut = NoResult /\ cleanPc = "idle"

\* merge_crash_vehicles_people(crashes, vehicles, people, "crash_record_id")
Merge ==
    /\ mergePc = "ready"
    /\ mergeOut' = merge_crash_vehicles_people(mergeIn.crashes, mergeIn.vehicles,
                                               mergeIn.people, "crash_record_id",
                                               strictUnique)
    /\ mergePc' = "done"
    /\ UNCHANGED <<mergeIn, cleanVars, storeVars, queue, chan, objects, raw, env,
                   strictUnique, last, repeat, published, bootVars, loadVars>>

NextMerge == Merge
SpecMerge == InitMerge /\ [][NextMerge]_vars

(***************************************************************************)
(* SpecLoad: load_dataset("crashes", "c1") on a raw bucket of up to        *)
(* MaxParts objects: partitions of the corr_id that are a JSON array, an   *)
(* object wrapping a "data" array, either of them gzipped, or malformed in *)
(* one of the ways a partition can be, and an object of another corr_id.   *)
(***************************************************************************)
MaxParts == 2

Part(content, id) ==
    ObjAs(content, "crashes", "c1", TRUE, <<"crash_record_id">>, <<"Utf8">>,
          <<[crash_record_id |-> S(id)]>>)
LoadParts ==
    {Part("array", Str_X), Part("data", Str_A), Part("gz", <<"B">>),
     Part("gz_bad_crc", <<"1">>), Part("gz_truncated", <<"2">>),
     Part("gz_corrupt", <<"3">>), Part("bad_utf8", <<"4">>),
     Part("bad_json", <<"5">>), Part("scalar", <<"6">>),
     ObjAs("array", "crashes", "None", TRUE, <<"crash_record_id">>, <<"Utf8">>,
           <<[crash_record_id |-> S(<<"7">>)]>>)}

InitLoad ==
    /\ loadIn \in {<<>>} \cup SeqsUpTo(LoadParts, MaxParts)
    /\ loadOut = NotLoaded
    /\ loadPc = "ready"
    /\ InitPipe /\ raw = "" /\ env = EnvDefault /\ strictUnique = FALSE
    /\ MergeIdle
    /\ skipInner = FALSE
    /\ gold = NoTable /\ ledger = init_meta /\ clock = 0 /\ storeLog = <<>>
    /\ cleanIn = EmptyDf /\ cleanOut = NoResult /\ cleanPc = "idle"

\* load_dataset(cli, raw_bucket, prefix, "crashes", "c1")
Load ==
    /\ loadPc = "ready"
    /\ loadOut' = load_dataset(loadIn, "crashes", "c1")
    /\ loadPc' = "done"
    /\ UNCHANGED <<loadIn, cleanVars, storeVars, queue, chan, objects, raw, env,
                   strictUnique, last, repeat, published, bootVars, mergeVars>>

NextLoad == Load
SpecLoad == InitLoad /\ [][NextLoad]_vars

(***************************************************************************)
(* SpecImpute: apply_cleaning on tables of up to MaxImputeRows rows whose  *)
(* keys differ (row i has the i-th key), so that a column has a median of  *)
(* two values next to a null: a numeric column, a date column, a textual   *)
(* column, under the key column, under an alias of it, under two aliases   *)
(* and without a key.                                                      *)
(***************************************************************************)
MaxImputeRows == 3

ImputeKeys == <<"A", "B", "C", "D", "E">>
ImputeNums == {Null, N(10), N(20)}
ImputeLayouts ==
    {Layout(<<"crash_record_id", "posted_speed_limit">>, <<"object", "float64">>),
     Layout(<<"crash_record_id", "crash_date">>, <<"object", "object">>),
     Layout(<<"crash_record_id", "street_direction">>, <<"object", "object">>),
     Layout(<<"crash_id", "crash_date">>, <<"object", "object">>),
     Layout(<<"crash_id", "id">>, <<"object", "object">>),
     Layout(<<"street_direction", "crash_date">>, <<"object", "object">>)}
\* The cells of the second column of a layout.
ImputeCells(lay) ==
    CASE lay.dt[lay.cols[2]] = "float64" -> ImputeNums
      [] lay.cols[2] = "crash_date" -> DateVals
      [] lay.cols[2] = "id" -> {Null, S(<<"x">>), S(<<" ", "K">>)}
      [] OTHER -> TextVals
\* The table of a layout with the cells vals in its second column.
ImputeFrame(lay, vals) ==
    [cols |-> lay.cols, dt |-> lay.dt,
     rows |-> [i \in 1..Len(vals) |->
                 [k \in SeqSet(lay.cols) |->
                     IF k = lay.cols[2] THEN vals[i] ELSE S(<<ImputeKeys[i]>>)]]]

InitImpute ==
    /\ \E lay \in ImputeLayouts :
         \E vals \in SeqsUpTo(ImputeCells(lay), MaxImputeRows) :
             cleanIn = ImputeFrame(lay, vals)
    /\ cleanOut = NoResult
    /\ cleanPc = "build"
    /\ StoreIdle
    /\ PipeIdle

NextImpute == Clean
SpecImpute == InitImpute /\ [][NextImpute]_vars

\* The upserts among the calls made so far, as positions of storeLog.
UpsertCalls == {i \in 1..Len(storeLog) : storeLog[i].op = "upsert"}
RunsFor(c) == {i \in 1..Len(storeLog) : storeLog[i].op = "record_run" /\ storeLog[i].corr_id = c}
LedgerRowsFor(c) == {i \in 1..Len(ledger) : ledger[i].corr_id = c}
\* Calls i < j upsert the same batch, with no upsert of another batch between.
SameBatchTwice(i, j) ==
    /\ i \in UpsertCalls /\ j \in UpsertCalls /\ i < j
    /\ \A k \in UpsertCalls : i <= k /\ k <= j => storeLog[k].batch = storeLog[i].batch

\* C1: upserting the same cleaned batch twice leaves the GoldTable after the
\* second upsert (schema and rows) as it was after the first, and however often
\* record_run was called for a corr_id the ledger holds exactly one row for it.
C1_UpsertTwiceIdempotent ==
    /\ \A i, j \in 1..Len(storeLog) :
         SameBatchTwice(i, j) => storeLog[j].gold = storeLog[i].gold
    /\ \A c \in CorrIds : RunsFor(c) # {} => Cardinality(LedgerRowsFor(c)) = 1

\* A batch with rows went in twice, both times without error, and record_run
\* ran twice for one corr_id.
C1_Witness ==
    /\ \E i, j \in 1..Len(storeLog) :
         /\ SameBatchTwice(i, j) /\ storeLog[i].ok /\ storeLog[j].ok
         /\ Height(storeLog[i].batch) > 0 /\ Len(gold.rows) > 0
    /\ \E c \in CorrIds : Cardinality(RunsFor(c)) >= 2

(***************************************************************************)
(* Claims about apply_cleaning (SpecClean).                                *)
(***************************************************************************)
Cleaned == cleanPc = "done" /\ cleanOut.ok
OutRows == cleanOut.df.rows

\* C3: every row apply_cleaning returns has a crash_record_id that is not
\* null, not empty after trimming, and different from that of every other
\* returned row.
C3_PkNonEmptyUnique ==
    Cleaned =>
        /\ \A i \in 1..Len(OutRows) :
             /\ OutRows[i][PK_COL].t = "str"
             /\ Strip(OutRows[i][PK_COL].s) # <<>>
        /\ \A i, j \in 1..Len(OutRows) :
             i # j => OutRows[i][PK_COL] # OutRows[j][PK_COL]

\* A key of the yes/no vocabulary, case-insensitive and trimmed.
InVocabulary(v) == v.t = "str" /\ Lower(Strip(v.s)) \in DOMAIN YES_NO_TRUE_FALSE
\* The input rows that reach boolean inference (PK resolved, deduplicated).
Deduplicated == drop_duplicates_last(ensure_pk(cleanIn), PK_COL)

\* C4: a textual column comes out reclassified as 0/1/null (Int8) only if
\* every non-null value of it is in the vocabulary; with a non-null value
\* outside the vocabulary the column stays text.
C4_BooleanOnlyIfAllMap ==
    Cleaned =>
        \A c \in (ColSet(cleanOut.df) \cap ColSet(cleanIn)) \ {PK_COL} :
            (IsTextDtype(cleanIn.dt[c]) /\ cleanOut.df.dt[c] = "Int8") =>
                \A i \in 1..Height(Deduplicated) :
                    \/ IsNull(Deduplicated.rows[i][c])
                    \/ InVocabulary(Deduplicated.rows[i][c])

(***************************************************************************)
(* SpecStart: the workers start while the broker comes and goes.           *)
(***************************************************************************)
MaxFlips == 3      \* the changes of the broker's state during the start-up

\* wait_for_port(host, port, tries=60, delay=1.0)
WAIT_TRIES == 60
\* max_tries of start_consumer
max_tries == 60
\* pika's connection_attempts, which the cleaner's URLParameters leave alone
connection_attempts == 1

\* socket.create_connection succeeds / pika.BlockingConnection succeeds.
PortOpen == broker \in {"port", "up"}
AmqpUp == broker = "up"

InitStart ==
    /\ queue = [q \in {"transform", "clean"} |-> EmptyBag]
    /\ objects = <<>> /\ last = NoJob /\ published = 0
    /\ repeat = [s \in {"transformer", "cleaner"} |-> NoRun]
    /\ raw = "A" /\ env = EnvSet /\ strictUnique = FALSE
    /\ flips = 0 /\ attempt = [w \in Workers |-> 0]
    /\ chan = [w \in Workers |->
                 [channel EXCEPT !.pc = IF Stage(w) = "transformer" THEN "wait_for_port"
                                        ELSE "connect"]]
    /\ broker \in {"down", "port", "up"}
    /\ skipInner = FALSE
    /\ gold = NoTable /\ ledger = init_meta /\ clock = 0 /\ storeLog = <<>>
    /\ cleanIn = EmptyDf /\ cleanOut = NoResult /\ cleanPc = "idle"
    /\ MergeIdle /\ LoadIdle

\* The broker starts, stops, or opens its port before AMQP answers.
BrokerChange ==
    /\ flips < MaxFlips
    /\ broker' \in {"down", "port", "up"} \ {broker}
    /\ flips' = flips + 1
    /\ UNCHANGED <<attempt, queue, chan, objects, last, repeat, published, raw, env,
                   strictUnique, storeVars, cleanVars, mergeVars, loadVars>>

\* One pass of the loop of wait_for_port, sleep included; after the last
\* failed pass start_consumer raises SystemExit.
WaitForPort(w) ==
    /\ chan[w].pc = "wait_for_port"
    /\ IF PortOpen
       THEN /\ chan' = [chan EXCEPT ![w].pc = "connect"]
            /\ attempt' = [attempt EXCEPT ![w] = 0]
       ELSE /\ attempt' = [attempt EXCEPT ![w] = @ + 1]
            /\ chan' = [chan EXCEPT ![w].pc =
                           IF attempt[w] + 1 = WAIT_TRIES THEN "exited" ELSE @]
    /\ UNCHANGED <<broker, flips, queue, objects, last, repeat, published, raw, env,
                   strictUnique, storeVars, cleanVars, mergeVars, loadVars>>

\* The attempts BlockingConnection(params) is given: the loop of
\* start_consumer in the transformer, the one call of main in the cleaner.
ConnectTries(w) == IF Stage(w) = "transformer" THEN max_tries ELSE connection_attempts

\* One pika.BlockingConnection(params): the connection, or an
\* AMQPConnectionError, which after the last attempt ends the process.
Connect(w) ==
    /\ chan[w].pc = "connect"
    /\ attempt' = [attempt EXCEPT ![w] = @ + 1]
    /\ chan' = [chan EXCEPT ![w].pc =
                   IF AmqpUp THEN "connected"
                   ELSE IF attempt[w] + 1 = ConnectTries(w) THEN "exited" ELSE @]
    /\ UNCHANGED <<broker, flips, queue, objects, last, repeat, published, raw, env,
                   strictUnique, storeVars, cleanVars, mergeVars, loadVars>>

NextStart ==
    \/ BrokerChange
    \/ \E w \in Workers : WaitForPort(w)
    \/ \E w \in Workers : Connect(w)
    \/ \E w \in Workers : Start(w)
SpecStart == InitStart /\ [][NextStart]_vars

(***************************************************************************)
(* Claims about the workers (Spec).                                        *)
(***************************************************************************)
\* This step is the callback of worker w running to its end.
HandledBy(w) ==
    /\ chan[w].pc = "consuming"
    /\ chan'[w].pc = "crashed" \/ Len(chan'[w].unacked) < Len(chan[w].unacked)
\* This step processes, fault-free, the job the stage of w processed last, for
\* the same corr_id and with the same input.
Reprocessed(w) ==
    /\ HandledBy(w)
    /\ last'.w = w /\ last'.processed /\ last'.fault = "none"
    /\ repeat[Stage(w)].n > 0 /\ repeat'[Stage(w)].n = 2
\* A ledger row without its timestamp.
Outcome(row) ==
    [corr_id |-> row.corr_id, table_name |-> row.table_name, row_count |-> row.row_count]
Outcomes(led) == [i \in 1..Len(led) |-> Outcome(led[i])]

\* C2 (as stated): when the same transform or clean job for a corr_id is
\* processed again with unchanged inputs, the merged artifact, the GoldTable
\* and the ledger are left in the state they had after it was processed once.
C2_ReprocessSameState ==
    [][\A w \in Workers :
         Reprocessed(w) => objects' = objects /\ gold' = gold /\ ledger' = ledger]_vars

\* C2 (amended): when the same transform or clean job for a corr_id is
\* processed again with unchanged inputs, the merged artifact and the
\* GoldTable are left as they were after it was processed once, and the
\* ledger keeps the same rows, one per corr_id, up to processed_at.
C2_ReprocessSameOutcome ==
    [][\A w \in Workers :
         Reprocessed(w) =>
             /\ objects' = objects /\ gold' = gold
             /\ Outcomes(ledger') = Outcomes(ledger)
             /\ \A i, j \in 1..Len(ledger') :
                  ledger'[i].corr_id = ledger'[j].corr_id => i = j]_vars

\* The transform job and the clean job of one corr_id have both been
\* processed twice, the second clean job acked with rows in the GoldTable.
C2_Witness ==
    /\ repeat["transformer"].n = 2 /\ repeat["cleaner"].n = 2
    /\ last.stage = "cleaner" /\ last.res = "ack" /\ last.fault = "none"
    /\ Len(gold.rows) > 0 /\ Len(ledger) = 1 /\ clock = 2

\* The message carries no corr_id, in its header or in its body.
NoCorrId(m) == m.hdr = ABSENT /\ (m.kind # "obj" \/ m.corr_id = ABSENT)
\* The steps of a job that touch the artifact, the GoldTable or the ledger.
StoreSteps == {"load", "download", "write_csv", "upsert", "record_run"}

\* C5: a message without corr_id is nacked with requeue=false by the worker
\* that receives it, which downloads and writes no artifact, upserts nothing
\* and writes no ledger row for it.
C5_NoCorrIdRejected ==
    last # NoJob /\ NoCorrId(last.msg) =>
        /\ last.res = "nack" /\ ~last.requeue
        /\ SeqSet(last.effects) \cap StoreSteps = {}

\* The message is a JSON object whose type is not a job type of the pipeline.
UnrecognizedType(m) == m.kind = "obj" /\ GetOr(m, "type", "") \notin {"transform", "clean"}

\* C6: a message of an unrecognized job type is nacked with requeue=false,
\* not acked, and no stage processing runs for it.
C6_UnknownTypeRejected ==
    last # NoJob /\ UnrecognizedType(last.msg) =>
        last.res = "nack" /\ ~last.requeue /\ ~last.processed /\ last.effects = <<>>

\* C7: a delivery whose stage processing raised is nacked with requeue=false,
\* one whose stage processing completed without exception is acked, and no
\* delivery is ever requeued.
C7_NackOnExceptionAckOnSuccess ==
    last # NoJob =>
        /\ last.raised # "" => last.res = "nack"
        /\ last.processed /\ last.raised = "" => last.res = "ack"
        /\ ~last.requeue

\* A clean job failed at the upsert on the data itself and was nacked; the
\* GoldTable is there from a clean job that succeeded before it.
C7_Witness ==
    /\ last # NoJob /\ last.stage = "cleaner" /\ last.fault = "none"
    /\ last.raised # "" /\ last.at = "upsert" /\ last.res = "nack"
    /\ gold.exists

\* C8: no exception raised while a message is handled leaves the handler:
\* the delivery is resolved and the worker is still in its consume loop.
C8_NothingEscapesHandler ==
    /\ last # NoJob => ~last.escaped /\ last.res \in {"ack", "nack"}
    /\ \A w \in Workers : chan[w].pc # "crashed"

\* The transformer could not parse a message, nacked it, and is consuming
\* with no delivery pending.
C8_Witness ==
    /\ last # NoJob /\ last.stage = "transformer"
    /\ last.raised = "JSONDecodeError" /\ last.res = "nack"
    /\ chan[last.w].pc = "consuming" /\ chan[last.w].unacked = <<>>

\* The deliveries of queue q not yet acked or nacked.
InFlight(q) ==
    UNION {{<<w, i>> : i \in 1..Len(chan[w].unacked)} : w \in WorkersOn(q)}

\* C9: a worker holds at most one unacknowledged message, and the messages in
\* flight on a queue are at most as many as the workers consuming it.
C9_OneInFlightPerWorker ==
    /\ \A w \in Workers : Len(chan[w].unacked) <= 1
    /\ \A w \in Workers : chan[w].pc = "consuming" => chan[w].prefetch = 1
    /\ \A q \in {"transform", "clean"} :
         Cardinality(InFlight(q)) <= Cardinality(WorkersOn(q))

\* A worker holds a delivery while another message waits on its queue.
C9_Witness ==
    \E w \in Workers :
        /\ Len(chan[w].unacked) = 1
        /\ queue[QueueOf(w)] # EmptyBag

(***************************************************************************)
(* Claims about the start-up (SpecStart).                                  *)
(***************************************************************************)
\* C10: every worker tries the broker a bounded number of times before it
\* consumes: it never tries without end, and one that gives up has tried
\* more than once.
C10_BoundedRetriesBeforeConsuming ==
    \A w \in Workers :
        /\ attempt[w] <= WAIT_TRIES /\ attempt[w] <= max_tries
        /\ chan[w].pc = "exited" => attempt[w] > 1

(***************************************************************************)
(* Claims about the transform job and its clean job (Spec).                *)
(***************************************************************************)
\* The clean jobs this step puts on the clean queue.
NewCleanJobs == queue'["clean"] (-) queue["clean"]
\* The merged artifact of corr is in the object store.
ArtifactOf(objs, corr) ==
    {k \in DOMAIN objs : k.prefix = PREFIX /\ k.dir = "corr=" /\ k.corr = corr
                         /\ k.name = "merged.csv"}

\* C11: a transform job publishes at most one clean job, only once the merged
\* artifact of its corr_id is written, with the corr_id in header and body;
\* a job that fails up to the artifact write publishes none.
C11_PublishOnlyAfterWrite ==
    [][HandledBy("xf1") =>
         /\ BagCardinality(NewCleanJobs) <= 1
         /\ \A m \in BagToSet(NewCleanJobs) :
              /\ "write_csv" \in SeqSet(last'.effects)
              /\ ArtifactOf(objects', last'.corr) # {}
              /\ m.type = "clean" /\ m.hdr = last'.corr /\ m.corr_id = last'.corr
         /\ last'.raised # "" => NewCleanJobs = EmptyBag]_vars

\* A transform job wrote its artifact and its clean job is on the queue.
C11_Witness ==
    /\ last.stage = "transformer" /\ last.res = "ack" /\ last.soft = ""
    /\ "publish" \in SeqSet(last.effects)
    /\ ArtifactOf(objects, last.corr) # {}
    /\ \E m \in BagToSet(queue["clean"]) : m.hdr = last.corr /\ m.corr_id = last.corr

\* C12: a transform job whose clean job could not be published after the
\* artifact was written is a success all the same: nothing is raised, the
\* transform message is acked, and the artifact stays in the object store.
C12_PublishFailureIsSoft ==
    last.stage = "transformer" /\ last.fault \in {"publish", "publish_close"} =>
        /\ last.raised = "" /\ last.res = "ack" /\ ~last.escaped
        /\ "write_csv" \in SeqSet(last.effects)
        /\ ArtifactOf(objects, last.corr) # {}

\* The broker failed before the clean job went out; the job was acked.
C12_Witness ==
    /\ last.stage = "transformer" /\ last.fault = "publish" /\ last.soft = "AMQPError"
    /\ last.res = "ack" /\ queue["clean"] = EmptyBag
    /\ ArtifactOf(objects, last.corr) # {}

(***************************************************************************)
(* Claims about the GoldTable and the ledger (SpecStore).                  *)
(***************************************************************************)
GoldPk(i) == gold.rows[i][PK_COL]

\* C13: after any sequence of upserts of cleaned batches no two rows of the
\* GoldTable share a primary key, and no row has a null or empty one.
C13_GoldPkUniqueNonEmpty ==
    gold.exists =>
        /\ \A i \in 1..Len(gold.rows) : ~IsNull(GoldPk(i)) /\ GoldPk(i) # S(<<>>)
        /\ \A i, j \in 1..Len(gold.rows) : GoldPk(i) = GoldPk(j) => i = j

\* Two rows are stored after an upsert of a batch whose key was stored before
\* and of a batch that carried one key twice.
C13_Witness ==
    /\ Len(gold.rows) >= 2
    /\ \E i, j \in UpsertCalls :
         /\ i < j /\ storeLog[i].ok /\ storeLog[j].ok
         /\ \E a \in 1..Len(storeLog[i].gold.rows), b \in 1..Height(storeLog[j].batch) :
              storeLog[i].gold.rows[a][PK_COL] = storeLog[j].batch.rows[b][PK_COL]
    /\ \E i \in UpsertCalls :
         storeLog[i].ok /\ InnerConflict(storeLog[i].batch.rows, PK_COL)


\* The GoldTable before and after call i of storeLog.
GoldBefore(i) == IF i = 1 THEN NoTable ELSE storeLog[i - 1].gold
GoldAfter(i) == storeLog[i].gold
\* Upserts that returned, of batches with rows none of which share a key.
PlainUpserts ==
    {i \in UpsertCalls : /\ storeLog[i].ok /\ Height(storeLog[i].batch) > 0
                         /\ ~InnerConflict(storeLog[i].batch.rows, PK_COL)}
\* What row b of the batch of call i brings for column k of the table: its
\* cell as the column's type stores it, nothing for a column it does not have.
Incoming(i, b, k) ==
    IF k \in ColSet(storeLog[i].batch)
    THEN CastTo(storeLog[i].batch.rows[b][k], GoldAfter(i).types[k]).v
    ELSE Null
\* The rows stored after call i under the key of row b of its batch.
StoredFor(i, b) == Matching(GoldAfter(i).rows, PK_COL, Incoming(i, b, PK_COL))
WasStored(i, b) == Matching(GoldBefore(i).rows, PK_COL, Incoming(i, b, PK_COL)) # {}

\* C14: an upsert stores one new row per incoming row whose key was not in
\* the table, and the row stored under a key that was in the table holds, in
\* every column but the key, what the incoming row brings and nothing of what
\* was stored before.
C14_UpsertOverwritesWholeRow ==
    \A i \in PlainUpserts :
        /\ Len(GoldAfter(i).rows) = Len(GoldBefore(i).rows)
              + Cardinality({b \in 1..Height(storeLog[i].batch) : ~WasStored(i, b)})
        /\ \A b \in 1..Height(storeLog[i].batch) :
             /\ Cardinality(StoredFor(i, b)) = 1
             /\ \A a \in StoredFor(i, b) : \A k \in TableColSet(GoldAfter(i)) \ {PK_COL} :
                  GoldAfter(i).rows[a][k] = Incoming(i, b, k)


\* The columns of the batch of call i that the table lacked before the call.
AddedBy(i) == ColSet(storeLog[i].batch) \ TableColSet(GoldBefore(i))
\* The rows stored before call i whose key is not in its batch, as positions.
NotInBatch(i) ==
    {a \in 1..Len(GoldBefore(i).rows) :
        \A b \in 1..Height(storeLog[i].batch) :
            GoldBefore(i).rows[a][PK_COL] # Incoming(i, b, PK_COL)}
\* Call i added the columns of its batch the table lacked and no other, left
\* the columns it had and their types alone, and the rows stored before and
\* not in the batch show null in the added columns and what they held in the
\* others.
GrewByBatch(i) ==
    /\ TableColSet(GoldAfter(i)) = TableColSet(GoldBefore(i)) \cup AddedBy(i)
    /\ \A k \in TableColSet(GoldBefore(i)) : GoldAfter(i).types[k] = GoldBefore(i).types[k]
    /\ Len(GoldAfter(i).rows) >= Len(GoldBefore(i).rows)
    /\ \A a \in NotInBatch(i) :
         /\ \A k \in AddedBy(i) : IsNull(GoldAfter(i).rows[a][k])
         /\ \A k \in TableColSet(GoldBefore(i)) :
              GoldAfter(i).rows[a][k] = GoldBefore(i).rows[a][k]

\* C15 as stated: whatever rows the batch has, an upsert into the GoldTable
\* adds the columns of the batch the table lacks.
C15_EveryBatchGrowsSchema ==
    \A i \in UpsertCalls : GoldBefore(i).exists => GrewByBatch(i)

\* C15: the GoldTable's columns never shrink and keep their types; an upsert
\* of a batch with at least one row adds exactly the columns of the batch the
\* table lacks, null in the rows stored before that are not in the batch, and
\* adds, removes or alters nothing else; an upsert of a batch without rows
\* leaves the table as it is.
C15_NonEmptyBatchGrowsSchema ==
    \A i \in UpsertCalls :
        /\ TableColSet(GoldBefore(i)) \subseteq TableColSet(GoldAfter(i))
        /\ \A k \in TableColSet(GoldBefore(i)) : GoldAfter(i).types[k] = GoldBefore(i).types[k]
        /\ IF Height(storeLog[i].batch) > 0 THEN GrewByBatch(i)
           ELSE GoldAfter(i) = GoldBefore(i)

\* An upsert added columns to a table holding a row that was not in its batch,
\* and another brought a column under a type other than the stored one.
C15_Witness ==
    /\ \E i \in UpsertCalls :
         /\ GoldBefore(i).exists /\ AddedBy(i) # {} /\ NotInBatch(i) # {}
         /\ Height(storeLog[i].batch) > 0
    /\ \E i \in UpsertCalls : \E k \in ColSet(storeLog[i].batch) \cap TableColSet(GoldBefore(i)) :
         SqlType(storeLog[i].batch.dt[k]) # GoldBefore(i).types[k]


\* The most recent record_run call for corr_id c, as a position of storeLog.
LatestRun(c) == CHOOSE i \in RunsFor(c) : \A j \in RunsFor(c) : j <= i

\* C16: the ledger holds no row for a corr_id record_run was never called for,
\* and exactly one for any other, with the table name and the row count of the
\* most recent record_run call for it.
C16_LedgerHoldsLatestRun ==
    \A c \in CorrIds :
        IF RunsFor(c) = {} THEN LedgerRowsFor(c) = {}
        ELSE /\ Cardinality(LedgerRowsFor(c)) = 1
             /\ \A i \in LedgerRowsFor(c) :
                  /\ ledger[i].table_name = "crashes"
                  /\ ledger[i].row_count = storeLog[LatestRun(c)].rows

\* record_run ran for one corr_id with one row count and later with another,
\* and for a second corr_id in between.
C16_Witness ==
    \E c, d \in CorrIds : \E i, j \in RunsFor(c) : \E k \in RunsFor(d) :
        /\ c # d /\ i < k /\ k < j /\ j = LatestRun(c)
        /\ storeLog[i].rows # storeLog[j].rows


\* The keys of the batch of call i, and the rows stored after it under them.
BatchKeys(i) == {Incoming(i, b, PK_COL) : b \in 1..Height(storeLog[i].batch)}
StoredUnder(i) == {a \in 1..Len(GoldAfter(i).rows) : GoldAfter(i).rows[a][PK_COL] \in BatchKeys(i)}

\* C17: an upsert returns the number of rows stored after it whose key occurs
\* in its batch, which is the number of distinct keys of the batch.
C17_ReturnsMatchedCount ==
    \A i \in UpsertCalls :
        storeLog[i].ok =>
            /\ storeLog[i].ret = Cardinality(StoredUnder(i))
            /\ storeLog[i].ret = Cardinality(BatchKeys(i))


(***************************************************************************)
(* Claim about a table that was there before (SpecLegacy).                 *)
(***************************************************************************)
\* This step is an upsert of a batch with rows, no two of one key.
UpsertStep ==
    /\ Len(storeLog') = Len(storeLog) + 1
    /\ storeLog'[Len(storeLog')].op = "upsert"
    /\ Height(storeLog'[Len(storeLog')].batch) > 0
    /\ ~InnerConflict(storeLog'[Len(storeLog')].batch.rows, PK_COL)
\* The keys stored do not allow the PRIMARY KEY constraint the table lacks.
KeysBreakConstraint == gold.exists /\ ~gold.pk /\ ~PkHolds(gold.rows, PK_COL)

\* C18: an upsert of a batch with rows gets to schema evolution and to the
\* insert whether or not the PRIMARY KEY constraint could be created: it does
\* not raise because the keys stored before break the constraint, and after
\* it the table has every column of the batch.
C18_ConstraintFailureSwallowed ==
    [][UpsertStep =>
         /\ ColSet(storeLog'[Len(storeLog')].batch) \subseteq TableColSet(gold')
         /\ KeysBreakConstraint => storeLog'[Len(storeLog')].ok]_vars


(***************************************************************************)
(* Claims about merge_crash_vehicles_people (SpecMerge).                   *)
(***************************************************************************)
Merged == mergePc = "done"
SomeInputEmpty ==
    IsEmptyPl(mergeIn.crashes) \/ IsEmptyPl(mergeIn.vehicles) \/ IsEmptyPl(mergeIn.people)

\* C19: with an empty primary dataset the merge does not raise, whatever the
\* related datasets hold, and its result is empty (stated for the polars
\* builds whose unique(subset) accepts the frame without columns, where the
\* outcome does not depend on the build).
C19_EmptyPrimaryYieldsEmpty ==
    Merged /\ IsEmptyPl(mergeIn.crashes) /\ ~strictUnique =>
        mergeOut.ok /\ IsEmptyPl(mergeOut.df)

\* The names of the primary dataset's columns once trimmed and lower-cased.
LowerCols(df) == [i \in 1..Len(df.cols) |-> LowerName(df.cols[i])]
\* Row r of the standardized frame is row q of the frame as loaded.
SameRow(out, r, df, q) == \A i \in 1..Len(df.cols) : r[LowerName(df.cols[i])] = q[df.cols[i]]
LacksId(df) == \A c \in ColSet(df) : LowerName(c) # "crash_record_id"

\* C20: for a primary dataset with rows and without an id column the merge
\* does not raise and returns the primary dataset as it stands after the
\* standardizing step (names lower-cased, exact duplicates of rows dropped),
\* with no count or list column attached.
C20_NoIdReturnsPrimary ==
    Merged /\ ~IsEmptyPl(mergeIn.crashes) /\ LacksId(mergeIn.crashes) =>
        /\ mergeOut.ok
        /\ mergeOut.df.cols = LowerCols(mergeIn.crashes)
        /\ \A i \in 1..Height(mergeOut.df) : \E j \in 1..Height(mergeIn.crashes) :
             SameRow(mergeOut.df, mergeOut.df.rows[i], mergeIn.crashes, mergeIn.crashes.rows[j])
        /\ \A j \in 1..Height(mergeIn.crashes) : \E i \in 1..Height(mergeOut.df) :
             SameRow(mergeOut.df, mergeOut.df.rows[i], mergeIn.crashes, mergeIn.crashes.rows[j])
        /\ \A i, j \in 1..Height(mergeOut.df) :
             mergeOut.df.rows[i] = mergeOut.df.rows[j] => i = j


\* The id column of a dataset as loaded, and whether it has one.
ID_LOWER == "crash_record_id"
HasId(df) == \E c \in ColSet(df) : LowerName(c) = ID_LOWER
IdCol(df) == CHOOSE c \in ColSet(df) : LowerName(c) = ID_LOWER
\* The rows of a related dataset with id v, exact duplicates counted once
\* (the standardizing step drops them before anything is counted).
RelatedRows(df, v) == {r \in SeqSet(df.rows) : r[IdCol(df)] = v}
\* The values a list cell should hold: column c of those rows, nulls left out.
RelatedVals(df, v, c) == {r[c].s : r \in {q \in RelatedRows(df, v) : ~IsNull(q[c])}}
IsSortedList(cell, vals) ==
    /\ cell.t = "list" /\ SeqSet(cell.s) = vals /\ Len(cell.s) = Cardinality(vals)
    /\ \A i \in 1..(Len(cell.s) - 1) : LexLeq(cell.s[i], cell.s[i + 1])
\* The aggregate columns of related dataset df under prefix are right in row r.
AggregatesOf(r, df, prefix) ==
    IF RelatedRows(df, r[ID_LOWER]) = {}
    THEN /\ IsNull(r[CountName(prefix)])
         /\ \A c \in ColSet(df) \ {IdCol(df)} : IsNull(r[ListName(prefix, LowerName(c))])
    ELSE /\ r[CountName(prefix)] = N(Cardinality(RelatedRows(df, r[ID_LOWER])))
         /\ \A c \in ColSet(df) \ {IdCol(df)} :
              IsSortedList(r[ListName(prefix, LowerName(c))], RelatedVals(df, r[ID_LOWER], c))
\* The merge went through its joins: the primary has rows and an id column.
Joined == Merged /\ mergeOut.ok /\ ~IsEmptyPl(mergeIn.crashes) /\ HasId(mergeIn.crashes)
PrimaryIds == {r[IdCol(mergeIn.crashes)] : r \in SeqSet(mergeIn.crashes.rows)}

\* C21: every id of the primary dataset has a merged row, and in every merged
\* row, for each related dataset with rows and an id column, <prefix>_count is
\* the number of related rows of the row's id and each <prefix>_<col>_list the
\* sorted list of the distinct non-null values of the column in those rows;
\* both are null when the id has no related row.
C21_AggregatesPerId ==
    Joined =>
        /\ {mergeOut.df.rows[i][ID_LOWER] : i \in 1..Height(mergeOut.df)} = PrimaryIds
        /\ \A i \in 1..Height(mergeOut.df) :
             /\ ~IsEmptyPl(mergeIn.vehicles) /\ HasId(mergeIn.vehicles)
                   => AggregatesOf(mergeOut.df.rows[i], mergeIn.vehicles, "veh")
             /\ ~IsEmptyPl(mergeIn.people) /\ HasId(mergeIn.people)
                   => AggregatesOf(mergeOut.df.rows[i], mergeIn.people, "ppl")

\* One id with two vehicles of different makes and a person, another id with
\* neither.
C21_Witness ==
    /\ Joined
    /\ HasCol(mergeOut.df, "veh_make_list") /\ HasCol(mergeOut.df, "ppl_count")
    /\ \E i, j \in 1..Height(mergeOut.df) :
         /\ mergeOut.df.rows[i].veh_count = N(2)
         /\ Len(mergeOut.df.rows[i].veh_make_list.s) = 2
         /\ mergeOut.df.rows[i].ppl_count = N(1)
         /\ IsNull(mergeOut.df.rows[j].veh_count) /\ IsNull(mergeOut.df.rows[j].ppl_count)

\* C22: the merged table holds each id once, and the row of an id holds, in
\* the primary's columns, the values of the first primary row of that id.
C22_OneRowPerIdFirstKept ==
    Joined =>
        /\ \A i, j \in 1..Height(mergeOut.df) :
             mergeOut.df.rows[i][ID_LOWER] = mergeOut.df.rows[j][ID_LOWER] => i = j
        /\ \A i \in 1..Height(mergeOut.df) :
             LET first == CHOOSE q \in 1..Height(mergeIn.crashes) :
                     /\ mergeIn.crashes.rows[q][IdCol(mergeIn.crashes)]
                           = mergeOut.df.rows[i][ID_LOWER]
                     /\ \A p \in 1..(q - 1) :
                          mergeIn.crashes.rows[p][IdCol(mergeIn.crashes)]
                             # mergeOut.df.rows[i][ID_LOWER]
             IN  SameRow(mergeOut.df, mergeOut.df.rows[i], mergeIn.crashes,
                         mergeIn.crashes.rows[first])

\* The primary held one id in two rows that differ, and vehicles were joined.
C22_Witness ==
    /\ Joined /\ ~IsEmptyPl(mergeIn.vehicles)
    /\ \E p, q \in 1..Height(mergeIn.crashes) :
         /\ p < q
         /\ mergeIn.crashes.rows[p].CRASH_RECORD_ID = mergeIn.crashes.rows[q].CRASH_RECORD_ID
         /\ mergeIn.crashes.rows[p] # mergeIn.crashes.rows[q]


\* The rows of the partitions of the corr_id that are well formed, in listing
\* order.
RECURSIVE WellFormedRows(_)
WellFormedRows(objs) ==
    IF objs = <<>> THEN <<>>
    ELSE (IF Head(objs).content \in WellFormed /\ Head(objs).corr = "c1"
          THEN Head(objs).rows ELSE <<>>) \o WellFormedRows(Tail(objs))

\* C23: a malformed partition object (corrupt or truncated compression,
\* undecodable bytes, invalid JSON, JSON that is neither an array nor an object
\* wrapping a data array) contributes zero rows and does not abort the load:
\* load_dataset returns, with the rows of the other partitions; with no
\* matching object it returns the empty dataset without error.
C23_MalformedPartitionSkipped ==
    loadPc = "done" =>
        /\ loadOut.ok
        /\ loadOut.df.rows = WellFormedRows(loadIn)


\* The tables with a key column, under its name or under an alias.
HasPkOrAlias(df) == HasCol(df, PK_COL) \/ FirstAlias(df, PK_ALIASES) # ""
\* The numeric columns of the result that are not boolean-like, each with the
\* cells it had before the imputation, one per row of the input: the numbers
\* of the input column, or the part of the date.
NumericBefore ==
    IF HasCol(cleanIn, "posted_speed_limit")
    THEN [c \in {"posted_speed_limit"} |-> Column(cleanIn, c)]
    ELSE IF HasCol(cleanIn, DATE_COL)
    THEN [c \in SeqSet(DERIVED_DATE_COLS) |->
             DatePart(cleanIn, CASE c = "crash_year" -> "year" [] c = "crash_month" -> "month"
                                 [] c = "crash_day" -> "day" [] OTHER -> "hour")]
    ELSE <<>>
\* The cell after the imputation: the median of the column's values (0 when it
\* has none) in the place of a null.
MedianFilled(before, i) ==
    IF ~IsNull(before[i]) THEN before[i]
    ELSE IF IsNull(Median(before)) THEN N(0) ELSE Median(before)

\* C26: the imputation never fails the dataset; it fills each null of a
\* numeric column that is not boolean-like with the median of the column's
\* values, or with 0 when it has none, each null of a textual column that is
\* no id with "missing", and leaves the nulls of a boolean-like column null.
C26_ImputationNeverFails ==
    cleanPc = "done" /\ HasPkOrAlias(cleanIn) =>
        /\ cleanOut.ok
        /\ Height(cleanOut.df) = Height(cleanIn)
        /\ \A c \in DOMAIN NumericBefore : \A i \in 1..Height(cleanIn) :
               cleanOut.df.rows[i][c] = MedianFilled(NumericBefore[c], i)
        /\ HasCol(cleanIn, "street_direction") =>
               \A i \in 1..Height(cleanIn) :
                   IsNull(cleanIn.rows[i].street_direction) =>
                       cleanOut.df.rows[i].street_direction
                           = IF cleanOut.df.dt.street_direction = "Int8" THEN Null ELSE MISSING


\* C24: apply_cleaning fails exactly when the input has neither the column
\* crash_record_id nor one of the aliases record_id, id, crash_id; with one of
\* them it returns a result whatever the values of the other columns, and the
\* key of the result is the first alias present, in that order.
C24_FailsOnlyWithoutPk ==
    cleanPc = "done" =>
        /\ cleanOut.ok <=> HasPkOrAlias(cleanIn)
        /\ cleanOut.ok /\ ~HasCol(cleanIn, PK_COL) =>
               \A j \in 1..Height(cleanOut.df) : \E i \in 1..Height(cleanIn) :
                   cleanOut.df.rows[j][PK_COL]
                       = StrStrip(AsString(cleanIn.rows[i][FirstAlias(cleanIn, PK_ALIASES)]))

\* The key of an input row as the result should hold it: trimmed.
TrimmedKey(i) == StrStrip(AsString(cleanIn.rows[i][PK_COL]))
\* C28: apply_cleaning changes the values of the key column by trimming only
\* and loses no key: every input row whose key is non-null and non-empty after
\* trimming has a result row with that trimmed key, and every key of the
\* result is the trimmed key of an input row.
C28_KeysOnlyTrimmed ==
    cleanPc = "done" /\ cleanOut.ok /\ HasCol(cleanIn, PK_COL) =>
        /\ \A i \in 1..Height(cleanIn) :
               ~IsNull(TrimmedKey(i)) /\ TrimmedKey(i) # S(<<>>) =>
                   \E j \in 1..Height(cleanOut.df) :
                       cleanOut.df.rows[j][PK_COL] = TrimmedKey(i)
        /\ \A j \in 1..Height(cleanOut.df) : \E i \in 1..Height(cleanIn) :
               cleanOut.df.rows[j][PK_COL] = TrimmedKey(i)


\* The table the cleaner read in the clean job it handled last, and the key
\* of its row i as the GoldTable is to hold it.
ArtifactRead == read_csv(repeat["cleaner"].input[1]).df
ArtifactKey(i) == StrStrip(AsString(ArtifactRead.rows[i][PK_COL]))
\* The last occurrence of every key of the artifact.
LastOccurrences ==
    {i \in 1..Height(ArtifactRead) :
        \A j \in (i + 1)..Height(ArtifactRead) : ArtifactKey(j) # ArtifactKey(i)}
\* The clean job handled last ran without a fault of the environment on an
\* artifact with a key column in which several rows share one key.
CleanedSharedKey ==
    /\ last.stage = "cleaner" /\ last.processed /\ last.fault = "none"
    /\ repeat["cleaner"].input # <<>>
    /\ read_csv(repeat["cleaner"].input[1]).ok /\ HasCol(ArtifactRead, PK_COL)
    /\ \E i, j \in 1..Height(ArtifactRead) :
         i # j /\ ArtifactKey(i) = ArtifactKey(j) /\ ArtifactKey(i) \notin {Null, S(<<>>)}

\* C25: a clean job whose merged artifact has several rows sharing one key
\* ends with exactly one GoldTable row per distinct key, holding the values of
\* the key's last occurrence, with a ledger row for its corr_id and table
\* "crashes" whose row_count is the number of cleaned rows, and with its
\* message acked.
C25_SharedKeyOneGoldRow ==
    CleanedSharedKey =>
        LET cleaned == apply_cleaning(FilterRows(ArtifactRead, LastOccurrences))
        IN  /\ last.res = "ack"
            /\ cleaned.ok
            /\ \A e \in SeqSet(CastRows(gold, cleaned.df)) :
                 \E a \in Matching(gold.rows, PK_COL, e[PK_COL]) :
                    /\ Matching(gold.rows, PK_COL, e[PK_COL]) = {a}
                    /\ \A c \in ColSet(cleaned.df) : gold.rows[a][c] = e[c]
            /\ \E r \in SeqSet(ledger) :
                 /\ r.corr_id = last.corr /\ r.table_name = "crashes"
                 /\ r.row_count = Height(cleaned.df)


\* Step a comes before step b among the steps a job completed.
StepBefore(a, b, steps) ==
    \E i, j \in 1..Len(steps) : i < j /\ steps[i] = a /\ steps[j] = b
\* C27: the cleaner acks a delivery only after it has, in this order,
\* downloaded the artifact, completed the upsert and written the ledger row of
\* the job; and a ledger row is never written unless the upsert of the same
\* job completed before it.
C27_AckAfterUpsertThenLedger ==
    [][\A w \in Workers : HandledBy(w) =>
         /\ last'.stage = "cleaner" /\ last'.res = "ack" =>
              /\ StepBefore("download", "upsert", last'.effects)
              /\ StepBefore("upsert", "record_run", last'.effects)
              /\ \E r \in SeqSet(ledger') :
                   r.corr_id = last'.corr /\ r.processed_at = clock' /\ clock' = clock + 1
         /\ ledger' # ledger =>
              /\ last'.stage = "cleaner"
              /\ StepBefore("upsert", "record_run", last'.effects)]_vars

\* A clean job was acked with its rows in the GoldTable and its ledger row
\* written.
C27_Witness ==
    /\ last.stage = "cleaner" /\ last.res = "ack" /\ last.fault = "none"
    /\ last.effects = <<"download", "read_csv", "apply_cleaning", "upsert", "record_run">>
    /\ Len(gold.rows) > 0
    /\ \E r \in SeqSet(ledger) : r.corr_id = last.corr /\ r.row_count > 0


\* The rows stored before call i whose key is in its batch, as positions.
InBatch(i) == (1..Len(GoldBefore(i).rows)) \ NotInBatch(i)
\* C29: an upsert leaves the rows stored under keys that are not in its batch
\* as they were in every column the table had; in a row stored under a key of
\* the batch, the columns the batch lacks keep what they held; no stored row
\* is removed or moves to another key; and an upsert of a batch without rows
\* returns 0 and changes nothing.
C29_UpsertTouchesBatchOnly ==
    \A i \in UpsertCalls :
        /\ Len(GoldAfter(i).rows) >= Len(GoldBefore(i).rows)
        /\ \A a \in NotInBatch(i) : \A k \in TableColSet(GoldBefore(i)) :
             GoldAfter(i).rows[a][k] = GoldBefore(i).rows[a][k]
        /\ \A a \in InBatch(i) :
             \A k \in (TableColSet(GoldBefore(i)) \ ColSet(storeLog[i].batch)) \cup {PK_COL} :
                 GoldAfter(i).rows[a][k] = GoldBefore(i).rows[a][k]
        /\ Height(storeLog[i].batch) = 0 =>
             storeLog[i].ok /\ storeLog[i].ret = 0 /\ GoldAfter(i) = GoldBefore(i)

\* An upsert met a row of a key outside its batch and a row of a key of its
\* batch holding a value in a column the batch lacks; and an upsert of a batch
\* without rows was made on a table with rows.
C29_Witness ==
    /\ \E i \in UpsertCalls :
         /\ storeLog[i].ok /\ NotInBatch(i) # {}
         /\ \E a \in InBatch(i) :
              \E k \in TableColSet(GoldBefore(i)) \ ColSet(storeLog[i].batch) :
                  ~IsNull(GoldBefore(i).rows[a][k])
    /\ \E i \in UpsertCalls :
         Height(storeLog[i].batch) = 0 /\ Len(GoldBefore(i).rows) > 0


\* C30: each delivery a worker handles is resolved exactly once: the handler
\* answers the delivery it was called for with an ack or with a nack without
\* requeue, on every path (invalid message, exception, success); the delivery
\* leaves the worker's unacknowledged deliveries, it alone, and does not come
\* back to the queue.
C30_ResolvedExactlyOnce ==
    [][\A w \in Workers : HandledBy(w) =>
         /\ last'.w = w /\ last'.msg = Head(chan[w].unacked)
         /\ last'.res \in {"ack", "nack"}
         /\ last'.res = "nack" => ~last'.requeue
         /\ chan'[w].pc = "consuming"
         /\ chan'[w].unacked = Tail(chan[w].unacked)
         /\ queue'[QueueOf(w)] = queue[QueueOf(w)]]_vars

\* A delivery was nacked on an exception and the worker holds none; another
\* message waits on its queue.
C30_Witness ==
    /\ last # NoJob /\ last.raised # "" /\ last.res = "nack" /\ ~last.requeue
    /\ chan[last.w].pc = "consuming" /\ chan[last.w].unacked = <<>>
    /\ queue[QueueOf(last.w)] # EmptyBag
====
